---- MODULE Spec2Model ----
(***************************************************************************)
(* Model of the club-negotiator repository: the utility evaluators of the  *)
(* club agents, their simulated-annealing vote, the mediators' proposal    *)
(* generators and the two negotiation loops (index-based: src/main.py and  *)
(* src/app.py; inter-club: src/AgentenSystem/main.py).                     *)
(*                                                                         *)
(* Python floats are modelled in fixed point: a utility, a temperature, a  *)
(* rate or a weight x is the integer x * SCALE (thousandths).  Quotients   *)
(* truncate; math.log and math.exp are computed by series in fixed point.  *)
(***************************************************************************)
EXTENDS Integers, Sequences, FiniteSets, TLC

(***************************************************************************)
(* Bounds: the run lengths of the configuration, scaled down.              *)
(* MaxRounds is MAX_ROUNDS, CalibrationIterations and MaxIterations are    *)
(* CALIBRATION_ITERATIONS and MAX_ITERATIONS, ShuffleEvery is the period   *)
(* of the shuffle rounds (20 in src/main.py, 50 in src/app.py) and         *)
(* ShufflePercentage is SHUFFLE_PERCENTAGE in thousandths.                 *)
(***************************************************************************)
MaxRounds == 3
CalibrationIterations == 2
MaxIterations == 4
ShuffleEvery == 2
ShufflePercentage == 500
ProgressIntervalSwaps == 1

(***************************************************************************)
(* Fixed-point arithmetic.                                                 *)
(***************************************************************************)
SCALE == 10 * 10 * 10
FINE == 10 * SCALE

Abs(x) == IF x < 0 THEN -x ELSE x
Max2(a, b) == IF a >= b THEN a ELSE b
Min2(a, b) == IF a <= b THEN a ELSE b

\* quotient a / b of two fixed-point numbers (b > 0), truncated
FDiv(a, b) == IF a >= 0 THEN (a * SCALE) \div b ELSE -(((-a) * SCALE) \div b)

\* product a * b of two fixed-point numbers, truncated
FMul(a, b) == IF a * b >= 0 THEN (a * b) \div SCALE ELSE -((-(a * b)) \div SCALE)

RECURSIVE SumTo(_, _)
SumTo(s, n) == IF n = 0 THEN 0 ELSE s[n] + SumTo(s, n - 1)

\* sum(s) of a list
SumSeq(s) == SumTo(s, Len(s))

RECURSIVE MaxTo(_, _)
MaxTo(s, n) == IF n = 1 THEN s[1] ELSE Max2(s[n], MaxTo(s, n - 1))

\* max(s) of a non-empty list
MaxSeq(s) == MaxTo(s, Len(s))

\* sum of term/n over the odd powers of y (y <= 0), at the scale FINE
RECURSIVE AtanhSeries(_, _, _, _)
AtanhSeries(term, y2, n, acc) ==
    IF term = 0 \/ n > 80 THEN acc
    ELSE AtanhSeries(-(((-term) * y2) \div FINE), y2, n + 2, acc - ((-term) \div n))

\* ln(x) for 0 < x <= 1 as 2 * atanh((x - 1) / (x + 1))
LogNeg(x) ==
    LET y  == -(((SCALE - x) * FINE) \div (x + SCALE))
        y2 == (y * y) \div FINE
    IN  -((-(2 * AtanhSeries(y, y2, 1, 0))) \div (FINE \div SCALE))

\* math.log(x) for a fixed-point x > 0
MathLog(x) == IF x <= SCALE THEN LogNeg(x) ELSE -LogNeg((SCALE * SCALE) \div x)

\* Taylor series of exp(-z), z >= 0 at the scale FINE
RECURSIVE ExpSeries(_, _, _, _)
ExpSeries(term, z, n, acc) ==
    IF term = 0 \/ n > 12 THEN acc
    ELSE ExpSeries((IF term >= 0 THEN -((term * z) \div (FINE * n))
                                 ELSE ((-term) * z) \div (FINE * n)),
                   z, n + 1, acc + term)

Square(v) == (v * v) \div FINE

\* math.exp(-x) for a fixed-point x >= 0: exp(-x/8) by its series, raised to
\* the 8th power by three squarings; 0 below the resolution of the model
MathExpNeg(x) ==
    IF x >= 12 * SCALE THEN 0
    ELSE LET z  == (x * (FINE \div SCALE)) \div 8
             e8 == ExpSeries(FINE, z, 1, 0)
         IN  Square(Square(Square(e8))) \div (FINE \div SCALE)

(***************************************************************************)
(* Players.  A player is an object: its identity is its number in the      *)
(* data set, its name is a field (two players may carry the same name).    *)
(***************************************************************************)
attribute_order ==
    << "ball_control", "dribbling", "slide_tackle", "stand_tackle",
       "aggression", "reactions", "att_position", "interceptions",
       "vision", "composure", "crossing", "short_pass", "long_pass",
       "acceleration", "stamina", "strength", "balance", "sprint_speed",
       "agility", "jumping", "heading", "shot_power", "finishing", "long_shots" >>

AttrNames == { attribute_order[k] : k \in DOMAIN attribute_order }

\* attributes absent from the data row default to 0
WithDefaults(row) == [a \in AttrNames |-> IF a \in DOMAIN row THEN row[a] ELSE 0]

\* Player.__init__ of src/PlayerAgent.py reads neither heading, shot_power,
\* finishing nor long_shots: get_attribute_vector finds 0 for them
Player(name, country, age, club, value, row) ==
    [name |-> name, country |-> country, age |-> age, club |-> club,
     value |-> value,
     attrs |-> [a \in AttrNames |->
                  IF a \in {"heading", "shot_power", "finishing", "long_shots"}
                  THEN 0 ELSE WithDefaults(row)[a]]]

\* Player.__init__ of src/AgentenSystem/PlayerAgent.py reads all 24
AS_Player(name, country, age, club, value, row) ==
    [name |-> name, country |-> country, age |-> age, club |-> club,
     value |-> value, attrs |-> WithDefaults(row)]

get_attribute_vector(p) == [k \in DOMAIN attribute_order |-> p.attrs[attribute_order[k]]]

(***************************************************************************)
(* Data sets: the rows the loader hands to the negotiation.  In every set  *)
(* players 1, 2 belong to the first club and players 3, 4 to the second.   *)
(***************************************************************************)
Row(bc, dr, st, sp, sta, fin) ==
    [ball_control |-> bc, dribbling |-> dr, stand_tackle |-> st, short_pass |-> sp,
     stamina |-> sta, finishing |-> fin]

\* four different players
DataMixed ==
    << Player("Adler", "DE", 24, "A", 2000000, Row(14, 9, 3, 12, 8, 15)),
       Player("Brandt", "DE", 31, "A", 500000, Row(6, 2, 13, 7, 10, 2)),
       Player("Costa", "BR", 27, "B", 1200000, Row(11, 7, 9, 4, 6, 9)),
       Player("Dias", "PT", 19, "B", 300000, Row(8, 11, 5, 10, 12, 12)) >>

\* player 3 is player 1 with 100 more stamina, 12 more dribbling and a value
\* lower by 100000: for a balanced first club the gain in attributes (110)
\* offsets the lost loyalty bonus (10) and same-club synergy (100), and the
\* exchange costs it about one hundredth of a utility point
DataClose ==
    << Player("Adler", "DE", 24, "A", 2000000, Row(14, 9, 3, 12, 0, 15)),
       Player("Brandt", "DE", 31, "A", 500000, Row(6, 2, 13, 7, 10, 2)),
       Player("Costa", "DE", 24, "B", 1900000, Row(14, 21, 3, 12, 100, 15)),
       Player("Dias", "PT", 19, "B", 300000, Row(8, 11, 5, 10, 12, 12)) >>

\* the four players of DataMixed as the club-based loader builds them
DataClubMixed ==
    << AS_Player("Adler", "DE", 24, "A", 2000000, Row(14, 9, 3, 12, 8, 15)),
       AS_Player("Brandt", "DE", 31, "A", 500000, Row(6, 2, 13, 7, 10, 2)),
       AS_Player("Costa", "BR", 27, "B", 1200000, Row(11, 7, 9, 4, 6, 9)),
       AS_Player("Dias", "PT", 19, "B", 300000, Row(8, 11, 5, 10, 12, 12)) >>

\* players 2 and 3 carry the same name
DataSameName ==
    << AS_Player("Adler", "DE", 24, "A", 2000000, Row(14, 9, 3, 12, 8, 15)),
       AS_Player("Silva", "PT", 31, "A", 500000, Row(6, 2, 13, 7, 10, 2)),
       AS_Player("Silva", "BR", 27, "B", 1200000, Row(11, 7, 9, 4, 6, 9)),
       AS_Player("Dias", "PT", 19, "B", 300000, Row(8, 11, 5, 10, 12, 12)) >>

\* the values the club fields of the four players of DataMixed can take when
\* TransferMarket.execute_transfer reassigns them (player.club = ...), each
\* under the name of the data set that carries these fields
MarketClubFields ==
    [market_AAAA |-> << "A", "A", "A", "A" >>,
     market_AAAB |-> << "A", "A", "A", "B" >>,
     market_AABA |-> << "A", "A", "B", "A" >>,
     market_AABB |-> << "A", "A", "B", "B" >>,
     market_ABAA |-> << "A", "B", "A", "A" >>,
     market_ABAB |-> << "A", "B", "A", "B" >>,
     market_ABBA |-> << "A", "B", "B", "A" >>,
     market_ABBB |-> << "A", "B", "B", "B" >>,
     market_BAAA |-> << "B", "A", "A", "A" >>,
     market_BAAB |-> << "B", "A", "A", "B" >>,
     market_BABA |-> << "B", "A", "B", "A" >>,
     market_BABB |-> << "B", "A", "B", "B" >>,
     market_BBAA |-> << "B", "B", "A", "A" >>,
     market_BBAB |-> << "B", "B", "A", "B" >>,
     market_BBBA |-> << "B", "B", "B", "A" >>,
     market_BBBB |-> << "B", "B", "B", "B" >>]

WithClubFields(data, fields) == [i \in DOMAIN data |-> [data[i] EXCEPT !.club = fields[i]]]

DataSets ==
    [mixed |-> DataMixed, close |-> DataClose,
     clubmixed |-> DataClubMixed, samename |-> DataSameName]
    @@ [n \in DOMAIN MarketClubFields |-> WithClubFields(DataMixed, MarketClubFields[n])]

PlayerIds == 1..4
FirstClubIds == <<1, 2>>
SecondClubIds == <<3, 4>>

(***************************************************************************)
(* Configuration of the index-based system (src/config.py), fixed point.   *)
(***************************************************************************)
STRATEGY_CONFIG ==
    [offensive |->
        [ATTRIBUTE_MULTIPLIERS |->
            [finishing |-> 1800, shot_power |-> 1600, att_position |-> 1700,
             dribbling |-> 1500, acceleration |-> 1500, sprint_speed |-> 1400,
             agility |-> 1400, ball_control |-> 1300, long_shots |-> 1300],
         POSITION_PREFERENCE |-> "ATT", AGE_PREFERENCE |-> "young"],
     defensive |->
        [ATTRIBUTE_MULTIPLIERS |->
            [slide_tackle |-> 1800, stand_tackle |-> 1800, interceptions |-> 1700,
             heading |-> 1600, strength |-> 1500, stamina |-> 1500,
             jumping |-> 1400, aggression |-> 1300, reactions |-> 1300],
         POSITION_PREFERENCE |-> "DEF", AGE_PREFERENCE |-> "experienced"],
     balanced |->
        [ATTRIBUTE_MULTIPLIERS |-> << >>,
         POSITION_PREFERENCE |-> "ANY", AGE_PREFERENCE |-> "balanced"],
     technical |->
        [ATTRIBUTE_MULTIPLIERS |->
            [ball_control |-> 1800, vision |-> 1800, short_pass |-> 1700,
             long_pass |-> 1600, composure |-> 1600, dribbling |-> 1500,
             crossing |-> 1400, agility |-> 1300, balance |-> 1300],
         POSITION_PREFERENCE |-> "MID", AGE_PREFERENCE |-> "balanced"]]

UTILITY_CONFIG ==
    [SYNERGY_WEIGHT |-> 5000, SAME_CLUB_SYNERGY |-> 20000,
     SAME_COUNTRY_SYNERGY |-> 10000, CHEMISTRY_THRESHOLD |-> 10,
     AGE_BONUS_WEIGHT |-> 2000, IDEAL_AVERAGE_AGE |-> 26,
     AGE_PENALTY_PER_YEAR |-> 3000, MAX_AGE_BONUS |-> 50000,
     VALUE_WEIGHT |-> 100]

(***************************************************************************)
(* ClubAgent (src/ClubAgent.py) over FootballAgent (src/PlayerAgent.py).   *)
(* Squads are lists of 0-based indices into the agent's players list.      *)
(***************************************************************************)
ClubBaseWeights ==
    [a \in AttrNames |->
        CASE a = "aggression" -> 1000
          [] a = "crossing" -> 1200
          [] a \in {"long_pass", "jumping", "heading", "long_shots"} -> 1300
          [] a = "stamina" -> 1800
          [] OTHER -> 1500]

Normalize(weights) ==
    LET max_weight == MaxSeq(weights)
    IN  [k \in DOMAIN weights |-> FDiv(weights[k], max_weight)]

ClubAgent_init_attribute_weights(strategy, custom_weights) ==
    IF strategy = "custom" /\ custom_weights # << >>
    THEN Normalize([k \in DOMAIN attribute_order |->
                      IF attribute_order[k] \in DOMAIN custom_weights
                      THEN custom_weights[attribute_order[k]] ELSE SCALE])
    ELSE LET mult == IF strategy \in DOMAIN STRATEGY_CONFIG
                     THEN STRATEGY_CONFIG[strategy].ATTRIBUTE_MULTIPLIERS ELSE << >>
             weights_dict == [a \in AttrNames |->
                                 IF a \in DOMAIN mult
                                 THEN FMul(ClubBaseWeights[a], mult[a])
                                 ELSE ClubBaseWeights[a]]
         IN  Normalize([k \in DOMAIN attribute_order |-> weights_dict[attribute_order[k]]])

ClubAgent_init_position_weights(strategy) ==
    LET pref == IF strategy \in DOMAIN STRATEGY_CONFIG
                THEN STRATEGY_CONFIG[strategy].POSITION_PREFERENCE ELSE "ANY"
    IN  [i \in 1..30 |->
            IF \/ pref = "ATT" /\ i - 1 \in 20..29
               \/ pref = "DEF" /\ i - 1 \in 0..9
               \/ pref = "MID" /\ i - 1 \in 10..19
            THEN 1500 ELSE 1000]

\* dot product of the agent's weights and the player's attribute vector
evaluate_player(attribute_weights, p) ==
    LET attributes == get_attribute_vector(p)
    IN  SumSeq([k \in 1..Min2(Len(attribute_weights), Len(attributes)) |->
                   attribute_weights[k] * attributes[k]])

\* the player object at 0-based index idx of the agent's list
PlayerAt(ag, ds, idx) == DataSets[ds][ag.players[idx + 1]]

position_weight(ag, i) == ag.position_weights[Min2(i, Len(ag.position_weights) - 1) + 1]

ClubAgent_calculate_synergy_bonus(ag, ds, squad) ==
    LET pair(i) ==
          IF squad[i] >= Len(ag.players) \/ squad[i + 1] >= Len(ag.players) THEN 0
          ELSE LET player1 == PlayerAt(ag, ds, squad[i])
                   player2 == PlayerAt(ag, ds, squad[i + 1])
                   pass_diff == Abs(player1.attrs["short_pass"] - player2.attrs["short_pass"])
               IN  (IF player1.club = player2.club /\ player1.club = ag.club_name
                    THEN UTILITY_CONFIG.SAME_CLUB_SYNERGY ELSE 0)
                 + (IF player1.country = player2.country /\ player1.country # ""
                    THEN UTILITY_CONFIG.SAME_COUNTRY_SYNERGY ELSE 0)
                 + (IF pass_diff < UTILITY_CONFIG.CHEMISTRY_THRESHOLD
                    THEN (UTILITY_CONFIG.CHEMISTRY_THRESHOLD - pass_diff) * SCALE ELSE 0)
    IN  FMul(SumSeq([i \in 1..(Len(squad) - 1) |-> pair(i)]), UTILITY_CONFIG.SYNERGY_WEIGHT)

ClubAgent_calculate_age_bonus(ag, ds, squad) ==
    LET ages == [i \in 1..Len(squad) |->
                    IF squad[i] < Len(ag.players) THEN PlayerAt(ag, ds, squad[i]).age ELSE 0]
        n == Cardinality({i \in 1..Len(squad) : squad[i] < Len(ag.players)})
        age_pref == IF ag.strategy \in DOMAIN STRATEGY_CONFIG
                    THEN STRATEGY_CONFIG[ag.strategy].AGE_PREFERENCE ELSE "balanced"
        ideal_age == CASE age_pref = "young" -> 24
                       [] age_pref = "experienced" -> 29
                       [] OTHER -> UTILITY_CONFIG.IDEAL_AVERAGE_AGE
    IN  IF n = 0 THEN 0
        ELSE LET avg_age == (SumSeq(ages) * SCALE) \div n
                 age_penalty == FMul(Abs(avg_age - ideal_age * SCALE),
                                     UTILITY_CONFIG.AGE_PENALTY_PER_YEAR)
             IN  Max2(0, UTILITY_CONFIG.MAX_AGE_BONUS - age_penalty)

\* FootballAgent._calculate_age_bonus of src/PlayerAgent.py
RootFootballAgent_calculate_age_bonus(ag, ds, squad) ==
    LET ages == [i \in 1..Len(squad) |->
                    IF squad[i] < Len(ag.players) THEN PlayerAt(ag, ds, squad[i]).age ELSE 0]
        n == Cardinality({i \in 1..Len(squad) : squad[i] < Len(ag.players)})
    IN  IF n = 0 THEN 0
        ELSE LET avg_age == (SumSeq(ages) * SCALE) \div n
                 age_penalty == Abs(avg_age - 27 * SCALE) * 2
             IN  Max2(0, 100 * SCALE - age_penalty)

\* FootballAgent.evaluate_squad of src/PlayerAgent.py, with ClubAgent's bonuses
FootballAgent_evaluate_squad(ag, ds, squad) ==
    SumSeq([i \in 1..Len(squad) |->
               IF squad[i] >= Len(ag.players) THEN 0
               ELSE FMul(evaluate_player(ag.attribute_weights, PlayerAt(ag, ds, squad[i])),
                         position_weight(ag, i - 1))])
    + ClubAgent_calculate_synergy_bonus(ag, ds, squad)
    + ClubAgent_calculate_age_bonus(ag, ds, squad)

ClubAgent_evaluate_squad(ag, ds, squad) ==
    LET present == {i \in 1..Len(squad) : squad[i] < Len(ag.players)}
        original_player_bonus ==
            10 * SCALE * Cardinality({i \in present : PlayerAt(ag, ds, squad[i]).club = ag.club_name})
        total_value == SumSeq([i \in 1..Len(squad) |->
                                  IF i \in present THEN PlayerAt(ag, ds, squad[i]).value ELSE 0])
        value_bonus == (total_value * UTILITY_CONFIG.VALUE_WEIGHT) \div (SCALE * SCALE)
    IN  FootballAgent_evaluate_squad(ag, ds, squad) + original_player_bonus + value_bonus

(***************************************************************************)
(* The simulated-annealing vote.  The three agent classes share the code   *)
(* of the controller; ClubAgent alone guards the logarithm with            *)
(* akzeptanzrate > 0.  A vote yields the agent after the call, the value   *)
(* returned and the exception raised ("none" when it returns), together    *)
(* with what the call went through: whether the calibration branch ran,    *)
(* and the two utilities it compared.                                      *)
(***************************************************************************)
\* truncating integer quotient for either sign of a and b (b # 0)
TDiv(a, b) == IF (a >= 0) = (b > 0) THEN Abs(a) \div Abs(b) ELSE -(Abs(a) \div Abs(b))

Returned(ag, ret) ==
    [agent |-> ag, ret |-> ret, exc |-> "none", calibrated |-> FALSE,
     current_utility |-> 0, proposed_utility |-> 0]
Raised(ag, e) ==
    [agent |-> ag, ret |-> FALSE, exc |-> e, calibrated |-> FALSE,
     current_utility |-> 0, proposed_utility |-> 0]

\* the decision with warm-up accepting at random before it looks for an
\* improvement
Decide_random_warmup(ag, current_utility, proposed_utility, r) ==
    IF proposed_utility > current_utility /\ ag.cur_iter >= ag.max_sim THEN Returned(ag, TRUE)
    ELSE LET delta == Max2(0, current_utility - proposed_utility)
             ag2 == [ag EXCEPT !.sum_delta = @ + delta, !.anz_delta = @ + 1]
         IN  IF ag2.cur_iter < ag2.max_sim THEN Returned(ag2, r <= ag2.mind_ac_rate)
             ELSE IF ag2.t > 0
                  THEN Returned(ag2, r <= MathExpNeg(TDiv(delta * SCALE, ag2.t)))
                  ELSE Returned(ag2, FALSE)

\* the decision with the Metropolis test in warm-up too
Decide_metropolis_in_warmup(ag, current_utility, proposed_utility, r) ==
    IF proposed_utility > current_utility THEN Returned(ag, TRUE)
    ELSE LET delta == current_utility - proposed_utility
             ag2 == [ag EXCEPT !.sum_delta = @ + delta, !.anz_delta = @ + 1]
         IN  IF ag2.t > 0
             THEN Returned(ag2, r <= MathExpNeg(TDiv(delta * SCALE, ag2.t)))
             ELSE Returned(ag2, FALSE)

\* lines 181-198 of ClubAgent.vote: the acceptance decision at temperature ag.t
Decide(ag, current_utility, proposed_utility, r) ==
    IF proposed_utility > current_utility THEN Returned(ag, TRUE)
    ELSE LET delta == current_utility - proposed_utility
             ag2 == [ag EXCEPT !.sum_delta = @ + delta, !.anz_delta = @ + 1]
         IN  IF ag2.cur_iter < ag2.max_sim THEN Returned(ag2, r <= ag2.mind_ac_rate)
             ELSE IF ag2.t > 0
                  THEN Returned(ag2, r <= MathExpNeg(TDiv(delta * SCALE, ag2.t)))
                  ELSE Returned(ag2, FALSE)

\* a calibration that derives the cooling step from the temperature the
\* agent already has and assigns no new one
Calibrate_keep_temperature(ag, cfg) ==
    IF ag.max_iter - ag.max_sim = 0 THEN Raised(ag, "ZeroDivisionError")
    ELSE Returned([ag EXCEPT !.delta_t = TDiv(ag.t, ag.max_iter - ag.max_sim)], TRUE)

\* lines 164-174: the calibration branch, entered when cur_iter == max_sim
Calibrate(ag, cfg) ==
    LET avg_delta == IF ag.anz_delta > 0 THEN TDiv(ag.sum_delta, ag.anz_delta) ELSE SCALE
        vb_rate == TDiv((ag.max_sim - ag.anz_delta) * SCALE, ag.max_sim)
        akzeptanzrate == Max2(cfg.MIN_CALIBRATION_RATE, ag.mind_ac_rate - vb_rate)
        ag1 == [ag EXCEPT !.avg_delta = avg_delta]
        use_log == IF ag.kind = "ClubAgent" THEN avg_delta > 0 /\ akzeptanzrate > 0
                   ELSE avg_delta > 0
    IN  IF use_log /\ akzeptanzrate <= 0 THEN Raised(ag1, "ValueError")
        ELSE IF use_log /\ MathLog(akzeptanzrate) = 0 THEN Raised(ag1, "ZeroDivisionError")
        ELSE LET t == IF use_log THEN TDiv((-avg_delta) * SCALE, MathLog(akzeptanzrate))
                      ELSE cfg.FALLBACK_TEMPERATURE
                 ag2 == [ag1 EXCEPT !.t = t]
             IN  IF ag.max_iter - ag.max_sim = 0 THEN Raised(ag2, "ZeroDivisionError")
                 ELSE Returned([ag2 EXCEPT !.delta_t = TDiv(t, ag.max_iter - ag.max_sim)], TRUE)

\* linear cooling without the floor
Cool_without_floor(ag, cfg) == [ag EXCEPT !.t = ag.t - ag.delta_t]

\* lines 176-178: linear cooling, clamped to the floor
Cool(ag, cfg) == [ag EXCEPT !.t = Max2(ag.t - ag.delta_t, cfg.MIN_TEMPERATURE)]

\* the controller calibrating on every vote from cur_iter == max_sim on
Anneal_recalibrate(ag, cfg, current_utility, proposed_utility, r) ==
    LET ag1 == [ag EXCEPT !.cur_iter = @ + 1]
        c == Calibrate(ag1, cfg)
        out == IF ag1.cur_iter >= ag1.max_sim
               THEN IF c.exc # "none" THEN c
                    ELSE Decide(c.agent, current_utility, proposed_utility, r)
               ELSE Decide(ag1, current_utility, proposed_utility, r)
    IN  [out EXCEPT !.calibrated = (ag1.cur_iter >= ag1.max_sim),
                    !.current_utility = current_utility,
                    !.proposed_utility = proposed_utility]

\* the controller cooling after the decision of the vote
Anneal_decide_then_cool(ag, cfg, current_utility, proposed_utility, r) ==
    LET ag1 == [ag EXCEPT !.cur_iter = @ + 1]
        c == Calibrate(ag1, cfg)
        d == Decide(ag1, current_utility, proposed_utility, r)
        out == IF ag1.cur_iter = ag1.max_sim
               THEN IF c.exc # "none" THEN c
                    ELSE Decide(c.agent, current_utility, proposed_utility, r)
               ELSE IF ag1.cur_iter > ag1.max_sim
                    THEN [d EXCEPT !.agent = Cool(d.agent, cfg)]
                    ELSE d
    IN  [out EXCEPT !.calibrated = (ag1.cur_iter = ag1.max_sim),
                    !.current_utility = current_utility,
                    !.proposed_utility = proposed_utility]

\* lines 161-198: the controller, given the two utilities and the draw r
Anneal(ag, cfg, current_utility, proposed_utility, r) ==
    LET ag1 == [ag EXCEPT !.cur_iter = @ + 1]
        c == Calibrate(ag1, cfg)
        out == IF ag1.cur_iter = ag1.max_sim
               THEN IF c.exc # "none" THEN c
                    ELSE Decide(c.agent, current_utility, proposed_utility, r)
               ELSE IF ag1.cur_iter > ag1.max_sim
                    THEN Decide(Cool(ag1, cfg), current_utility, proposed_utility, r)
                    ELSE Decide(ag1, current_utility, proposed_utility, r)
    IN  [out EXCEPT !.calibrated = (ag1.cur_iter = ag1.max_sim),
                    !.current_utility = current_utility,
                    !.proposed_utility = proposed_utility]

ClubAgent_vote(ag, cfg, ds, current_squad, proposed_squad, r) ==
    Anneal(ag, cfg, ClubAgent_evaluate_squad(ag, ds, current_squad),
           ClubAgent_evaluate_squad(ag, ds, proposed_squad), r)

\* the values random.random() is drawn from
Draws == {0, 400, 900}

(***************************************************************************)
(* SA_CONFIG of src/config.py (index-based system), in thousandths.        *)
(***************************************************************************)
INITIAL_TEMPERATURE == 100000
MIN_ACCEPTANCE_RATE == 700
MIN_TEMPERATURE == 10
FALLBACK_TEMPERATURE == 20000
MIN_CALIBRATION_RATE == 200

SA_CONFIG ==
    [INITIAL_TEMPERATURE |-> INITIAL_TEMPERATURE,
     MIN_ACCEPTANCE_RATE |-> MIN_ACCEPTANCE_RATE,
     MAX_ITERATIONS |-> MaxIterations,
     CALIBRATION_ITERATIONS |-> CalibrationIterations,
     MIN_TEMPERATURE |-> MIN_TEMPERATURE,
     FALLBACK_TEMPERATURE |-> FALLBACK_TEMPERATURE,
     MIN_CALIBRATION_RATE |-> MIN_CALIBRATION_RATE]

\* FootballAgent.__init__ followed by the rest of ClubAgent.__init__
NewClubAgent(club_name, strategy, custom_weights, cfg) ==
    [kind |-> "ClubAgent", club_name |-> club_name, strategy |-> strategy,
     players |-> << >>,
     attribute_weights |-> ClubAgent_init_attribute_weights(strategy, custom_weights),
     position_weights |-> ClubAgent_init_position_weights(strategy),
     t |-> cfg.INITIAL_TEMPERATURE, delta_t |-> 0,
     mind_ac_rate |-> cfg.MIN_ACCEPTANCE_RATE,
     max_iter |-> cfg.MAX_ITERATIONS, cur_iter |-> 0,
     max_sim |-> cfg.CALIBRATION_ITERATIONS,
     sum_delta |-> 0, anz_delta |-> 0, avg_delta |-> 0]

set_players(ag, players) == [ag EXCEPT !.players = players]

(***************************************************************************)
(* FootballMediator (src/FootballMediator.py): proposals over one list of  *)
(* indices.                                                                *)
(***************************************************************************)
init_squads(num_players) == [i \in 1..num_players |-> i - 1]

\* an exchange that overwrites slot pos1 before it is saved
SwapAt_overwrite(squad, pos1, pos2) ==
    [i \in DOMAIN squad |-> IF i = pos1 + 1 THEN squad[pos2 + 1] ELSE squad[i]]

\* the list with the entries at 0-based positions pos1 and pos2 exchanged
SwapAt(squad, pos1, pos2) ==
    [i \in DOMAIN squad |->
        IF i = pos1 + 1 THEN squad[pos2 + 1]
        ELSE IF i = pos2 + 1 THEN squad[pos1 + 1] ELSE squad[i]]

num_to_shuffle(len, shuffle_percentage) == Max2(1, (len * shuffle_percentage) \div SCALE)

\* every outcome of random.sample and random.shuffle in propose_team_shuffle:
\* a set of num positions and, for each, the position its new value comes from
ShuffleDraws(len, num) ==
    UNION { {g \in [S -> S] : \A a, b \in S : g[a] = g[b] => a = b} :
              S \in {T \in SUBSET (1..len) : Cardinality(T) = num} }

\* squad[:k] and squad[k:]
Prefix(squad, k) == SubSeq(squad, 1, k)
Suffix(squad, k) == SubSeq(squad, k + 1, Len(squad))

\* the exchange done on the caller's list itself, without the copy
propose_player_swap_in_place(current_squad, pos1, pos2) ==
    [current_squad |-> SwapAt(current_squad, pos1, pos2),
     proposed_squad |-> SwapAt(current_squad, pos1, pos2)]

\* propose_player_swap once the two slots are drawn: the caller's list as the
\* call leaves it, and the list returned (a copy with the two slots exchanged)
propose_player_swap(current_squad, pos1, pos2) ==
    [current_squad |-> current_squad,
     proposed_squad |-> SwapAt(current_squad, pos1, pos2)]

\* propose_team_shuffle on the draw f, in the same form
propose_team_shuffle(current_squad, f) ==
    [current_squad |-> current_squad,
     proposed_squad |-> [i \in DOMAIN current_squad |->
                           IF i \in DOMAIN f THEN current_squad[f[i]]
                           ELSE current_squad[i]]]

(***************************************************************************)
(* The club-based system (src/AgentenSystem).  Its configuration           *)
(* (src/AgentenSystem/config.py), in thousandths.                          *)
(***************************************************************************)
AS_INITIAL_TEMPERATURE == 50000
AS_MIN_ACCEPTANCE_RATE == 800
AS_MIN_TEMPERATURE == 10
AS_FALLBACK_TEMPERATURE == 10000
AS_MIN_CALIBRATION_RATE == 100

AS_SA_CONFIG ==
    [INITIAL_TEMPERATURE |-> AS_INITIAL_TEMPERATURE,
     MIN_ACCEPTANCE_RATE |-> AS_MIN_ACCEPTANCE_RATE,
     MAX_ITERATIONS |-> MaxIterations,
     CALIBRATION_ITERATIONS |-> CalibrationIterations,
     MIN_TEMPERATURE |-> AS_MIN_TEMPERATURE,
     FALLBACK_TEMPERATURE |-> AS_FALLBACK_TEMPERATURE,
     MIN_CALIBRATION_RATE |-> AS_MIN_CALIBRATION_RATE]

AS_UTILITY_CONFIG ==
    [SYNERGY_WEIGHT |-> 10000, AGE_BONUS_WEIGHT |-> 1000,
     IDEAL_AVERAGE_AGE |-> 27, AGE_PENALTY_PER_YEAR |-> 2000,
     MAX_AGE_BONUS |-> 100000, MAX_PASS_SYNERGY |-> 10000,
     PASS_SYNERGY_THRESHOLD |-> 10000, MAX_AGE_SYNERGY |-> 5000,
     AGE_SYNERGY_DIVISOR |-> 3000]

BUYER_CONFIG ==
    [ATTRIBUTE_WEIGHTS |->
        [ball_control |-> 2500, dribbling |-> 2300, slide_tackle |-> 500,
         stand_tackle |-> 700, aggression |-> 1000, reactions |-> 1800,
         att_position |-> 2800, interceptions |-> 1200, vision |-> 2400,
         composure |-> 2000, crossing |-> 1500, short_pass |-> 2200,
         long_pass |-> 1800, acceleration |-> 2100, stamina |-> 1900,
         strength |-> 1400, balance |-> 1700, sprint_speed |-> 2000,
         agility |-> 2200, jumping |-> 1300, heading |-> 1400,
         shot_power |-> 2600, finishing |-> 2900, long_shots |-> 2100],
     POSITION_WEIGHTS |->
        << 1800, 1800, 1700, 1700, 1600, 1500, 1400, 1300, 1200, 1100,
           1000, 900, 800, 700, 600, 500, 400, 300, 200, 100,
           50, 50, 50, 50, 50, 50, 50, 50, 50, 50 >>]

SELLER_CONFIG ==
    [ATTRIBUTE_WEIGHTS |->
        [ball_control |-> 1900, dribbling |-> 1500, slide_tackle |-> 2500,
         stand_tackle |-> 2700, aggression |-> 1800, reactions |-> 2000,
         att_position |-> 1200, interceptions |-> 2600, vision |-> 1700,
         composure |-> 1800, crossing |-> 1000, short_pass |-> 2100,
         long_pass |-> 1900, acceleration |-> 1800, stamina |-> 2400,
         strength |-> 2200, balance |-> 1600, sprint_speed |-> 1700,
         agility |-> 1500, jumping |-> 1900, heading |-> 2300,
         shot_power |-> 1400, finishing |-> 1100, long_shots |-> 1300],
     POSITION_WEIGHTS |->
        << 2900, 2800, 2700, 2600, 2500, 2400, 2300, 2200, 2100, 2000,
           1900, 1800, 1700, 1600, 1500, 1400, 1300, 1200, 1100, 1000,
           900, 800, 700, 600, 500, 400, 300, 200, 100, 50 >>]

\* _init_attribute_weights of the buyer and of the seller: the dictionary in
\* attribute order (1.0 for a missing key), divided by its maximum
WeightsFromDict(weights_dict) ==
    Normalize([k \in DOMAIN attribute_order |->
                  IF attribute_order[k] \in DOMAIN weights_dict
                  THEN weights_dict[attribute_order[k]] ELSE SCALE])

\* the fields FootballAgent.__init__ and the subclass constructors assign
NewAgent(kind, club_name, weights_dict, position_weights, cfg) ==
    [kind |-> kind, club_name |-> club_name, strategy |-> "config",
     players |-> << >>,
     attribute_weights |-> WeightsFromDict(weights_dict),
     position_weights |-> position_weights,
     t |-> cfg.INITIAL_TEMPERATURE, delta_t |-> 0,
     mind_ac_rate |-> cfg.MIN_ACCEPTANCE_RATE,
     max_iter |-> cfg.MAX_ITERATIONS, cur_iter |-> 0,
     max_sim |-> cfg.CALIBRATION_ITERATIONS,
     sum_delta |-> 0, anz_delta |-> 0, avg_delta |-> 0]

NewBuyerClubAgent(club_name, cfg) ==
    NewAgent("BuyerClubAgent", club_name, BUYER_CONFIG.ATTRIBUTE_WEIGHTS,
             BUYER_CONFIG.POSITION_WEIGHTS, cfg)

\* a SellerClubAgent as its constructor is written to leave it
NewSellerClubAgent(club_name, cfg) ==
    NewAgent("SellerClubAgent", club_name, SELLER_CONFIG.ATTRIBUTE_WEIGHTS,
             SELLER_CONFIG.POSITION_WEIGHTS, cfg)

\* results of the evaluators: a value, or the exception raised
Val(v) == [val |-> v, exc |-> "none"]
Exc(e) == [val |-> 0, exc |-> e]

\* a value of Python handed to a method: a list, or a Player object
ListObj(items) == [tag |-> "list", items |-> items]
PlayerObj(id) == [tag |-> "Player", items |-> <<id>>]

\* _calculate_age_bonus of FootballAgent (src/AgentenSystem/PlayerAgent.py),
\* over the ages of the squad
FootballAgent_calculate_age_bonus(ages) ==
    IF Len(ages) = 0 THEN Val(0)
    ELSE LET avg_age == (SumSeq(ages) * SCALE) \div Len(ages)
             age_penalty == Abs(avg_age - 27 * SCALE) * 2
         IN  Val(Max2(0, 100 * SCALE - age_penalty))

\* _calculate_age_bonus of BuyerClubAgent and of SellerClubAgent
BuyerClubAgent_calculate_age_bonus(ages) ==
    IF Len(ages) = 0 THEN Exc("ZeroDivisionError")
    ELSE LET avg_age == (SumSeq(ages) * SCALE) \div Len(ages)
             age_penalty == FMul(Abs(avg_age - AS_UTILITY_CONFIG.IDEAL_AVERAGE_AGE * SCALE),
                                 AS_UTILITY_CONFIG.AGE_PENALTY_PER_YEAR)
             bonus == Max2(0, AS_UTILITY_CONFIG.MAX_AGE_BONUS - age_penalty)
         IN  Val(FMul(bonus, AS_UTILITY_CONFIG.AGE_BONUS_WEIGHT))

SellerClubAgent_calculate_age_bonus(ages) ==
    IF Len(ages) = 0 THEN Exc("ZeroDivisionError")
    ELSE LET avg_age == (SumSeq(ages) * SCALE) \div Len(ages)
             age_penalty == FMul(Abs(avg_age - AS_UTILITY_CONFIG.IDEAL_AVERAGE_AGE * SCALE),
                                 AS_UTILITY_CONFIG.AGE_PENALTY_PER_YEAR)
             bonus == Max2(0, AS_UTILITY_CONFIG.MAX_AGE_BONUS - age_penalty)
         IN  Val(FMul(bonus, AS_UTILITY_CONFIG.AGE_BONUS_WEIGHT))

\* the age bonus of an agent of the given class for the squad (0-based
\* indices into the list players of player ids)
calculate_age_bonus(kind, ds, players, squad) ==
    IF kind = "FootballAgent" /\ Len(squad) = 0 THEN Val(0)
    ELSE IF \E i \in DOMAIN squad : squad[i] >= Len(players) THEN Exc("IndexError")
    ELSE LET ages == [i \in DOMAIN squad |-> DataSets[ds][players[squad[i] + 1]].age]
         IN  CASE kind = "BuyerClubAgent" -> BuyerClubAgent_calculate_age_bonus(ages)
               [] kind = "SellerClubAgent" -> SellerClubAgent_calculate_age_bonus(ages)
               [] OTHER -> FootballAgent_calculate_age_bonus(ages)

\* _calculate_synergy_bonus of BuyerClubAgent and SellerClubAgent
calculate_synergy_bonus(ds, players, squad) ==
    IF \E i \in DOMAIN squad : squad[i] >= Len(players) /\ Len(squad) > 1 THEN Exc("IndexError")
    ELSE LET pair(i) ==
               LET player1 == DataSets[ds][players[squad[i] + 1]]
                   player2 == DataSets[ds][players[squad[i + 1] + 1]]
                   pass_synergy == Abs(player1.attrs["short_pass"] - player2.attrs["short_pass"]) * SCALE
                   age_diff == Abs(player1.age - player2.age) * SCALE
               IN  Max2(0, AS_UTILITY_CONFIG.MAX_PASS_SYNERGY
                           - FMul(FDiv(pass_synergy, AS_UTILITY_CONFIG.PASS_SYNERGY_THRESHOLD),
                                  AS_UTILITY_CONFIG.MAX_PASS_SYNERGY))
                 + Max2(0, AS_UTILITY_CONFIG.MAX_AGE_SYNERGY
                           - FDiv(age_diff, AS_UTILITY_CONFIG.AGE_SYNERGY_DIVISOR))
         IN  Val(FMul(SumSeq([i \in 1..(Len(squad) - 1) |-> pair(i)]),
                      AS_UTILITY_CONFIG.SYNERGY_WEIGHT))

\* total_utility once the two bonuses are in: their sum, or the exception
\* the age bonus raised; players is the agent's list when the call is over
TotalUtility(base, synergy_bonus, age_bonus, players) ==
    IF age_bonus.exc # "none"
    THEN [val |-> 0, exc |-> age_bonus.exc, players |-> players]
    ELSE [val |-> base + synergy_bonus.val + age_bonus.val, exc |-> "none",
          players |-> players]

\* FootballAgent.evaluate_squad (src/AgentenSystem/PlayerAgent.py) of a
\* BuyerClubAgent or SellerClubAgent; iterating over a Player is a TypeError
evaluate_squad(ag, ds, squad_indices) ==
    IF squad_indices.tag # "list"
    THEN [val |-> 0, exc |-> "TypeError", players |-> ag.players]
    ELSE IF \E i \in DOMAIN squad_indices.items : squad_indices.items[i] >= Len(ag.players)
    THEN [val |-> 0, exc |-> "IndexError", players |-> ag.players]
    ELSE TotalUtility(
             SumSeq([i \in DOMAIN squad_indices.items |->
                        FMul(evaluate_player(ag.attribute_weights,
                                 DataSets[ds][ag.players[squad_indices.items[i] + 1]]),
                             position_weight(ag, i - 1))]),
             calculate_synergy_bonus(ds, ag.players, squad_indices.items),
             calculate_age_bonus(ag.kind, ds, ag.players, squad_indices.items),
             ag.players)

\* list(range(len(hypothetical_players_list)))
IndicesOf(list) == [i \in DOMAIN list |-> i - 1]

\* calculate_utility_for_hypothetical_squad: the same sum over a list of
\* Player objects.  self.players is set to the hypothetical list for the two
\* bonuses and set back to original_players in the finally clause, on return
\* and on exception
calculate_utility_for_hypothetical_squad(ag, ds, hypothetical_players_list) ==
    TotalUtility(
        SumSeq([i \in DOMAIN hypothetical_players_list |->
                   FMul(evaluate_player(ag.attribute_weights,
                                        DataSets[ds][hypothetical_players_list[i]]),
                        position_weight(ag, i - 1))]),
        calculate_synergy_bonus(ds, hypothetical_players_list,
                                IndicesOf(hypothetical_players_list)),
        calculate_age_bonus(ag.kind, ds, hypothetical_players_list,
                            IndicesOf(hypothetical_players_list)),
        ag.players)

\* get_player_index: the first player that is the object or carries its name;
\* -1 stands for None
get_player_index(ag, ds, player_to_find) ==
    LET hits == {i \in DOMAIN ag.players :
                    \/ ag.players[i] = player_to_find
                    \/ DataSets[ds][ag.players[i]].name = DataSets[ds][player_to_find].name}
    IN  IF hits = {} THEN -1 ELSE (CHOOSE i \in hits : \A j \in hits : i <= j) - 1

\* the list without its entry at 0-based index idx
DeleteAt(list, idx) == SubSeq(list, 1, idx) \o SubSeq(list, idx + 2, Len(list))

\* the agent with the players list an evaluation left it
After(ag, utility) == [ag EXCEPT !.players = utility.players]

\* the rest of a vote once both utilities are there: the exception of the
\* first that raised, or the controller
VoteOn(ag, cfg, current_utility, proposed_utility, r) ==
    IF current_utility.exc # "none" THEN Raised(After(ag, current_utility), current_utility.exc)
    ELSE IF proposed_utility.exc # "none"
    THEN Raised(After(ag, proposed_utility), proposed_utility.exc)
    ELSE Anneal(After(ag, proposed_utility), cfg, current_utility.val,
                proposed_utility.val, r)

\* BuyerClubAgent.vote: written for two lists of indices
BuyerClubAgent_vote(ag, cfg, ds, current_squad, proposed_squad, r) ==
    VoteOn(ag, cfg, evaluate_squad(ag, ds, current_squad),
           evaluate_squad(ag, ds, proposed_squad), r)

\* lines 116-179 of SellerClubAgent.vote, the utility of the present squad
\* and the index of the player to give being known
SellerClubAgent_vote_at(ag, cfg, ds, current_utility, player_to_give_index, player_to_receive, r) ==
    IF current_utility.exc # "none" THEN Raised(After(ag, current_utility), current_utility.exc)
    ELSE IF player_to_give_index = -1 THEN Returned(After(ag, current_utility), FALSE)
    ELSE VoteOn(ag, cfg, current_utility,
                calculate_utility_for_hypothetical_squad(ag, ds,
                    Append(DeleteAt(ag.players, player_to_give_index), player_to_receive)),
                r)

\* SellerClubAgent.vote: written for the player given and the player received
SellerClubAgent_vote(ag, cfg, ds, player_to_give, player_to_receive, r) ==
    SellerClubAgent_vote_at(ag, cfg, ds,
        calculate_utility_for_hypothetical_squad(ag, ds, ag.players),
        get_player_index(ag, ds, player_to_give), player_to_receive, r)

\* the call agent.vote(player_to_give, player_to_receive) of the inter-club
\* loop, dispatched on the class of the agent
vote(ag, cfg, ds, player_to_give, player_to_receive, r) ==
    IF ag.kind = "SellerClubAgent"
    THEN SellerClubAgent_vote(ag, cfg, ds, player_to_give, player_to_receive, r)
    ELSE BuyerClubAgent_vote(ag, cfg, ds, PlayerObj(player_to_give),
                             PlayerObj(player_to_receive), r)

(***************************************************************************)
(* State.                                                                  *)
(***************************************************************************)
VARIABLES
    mode,             \* which program runs: "index", "club", or a direct call
    ds,               \* the data set the players come from
    cfg,              \* SA_CONFIG, the module-level configuration
    pc,               \* position in the loop body
    round_num,        \* the loop counter
    agents,           \* agents[1]: first club / buyer, agents[2]: second / seller
    current_squad,    \* index-based loop: the list of pool indices
    proposal,         \* the proposal of this round
    pos1,             \* the two slots drawn by propose_player_swap
    pos2,
    club1_vote,       \* "none" until the first agent has voted in this round
    club2_vote,
    successful_swaps, \* accepted proposals
    exc,              \* the exception that left the loop, "none" otherwise
    pool_alias,       \* the mediator's pools are the agents' own list objects
    pools,            \* the mediator's two pools when they are lists of their own
    trade_executed_this_round,
    trade_log,        \* ClubBasedFootballMediator.trade_log
    last_vote,        \* what the latest vote call went through
    calibrations,     \* per agent, how often the calibration branch has run
    result,           \* what the latest direct call of an evaluator gave
    progress,         \* the latest progress line printed
    twin              \* a second run, or a second world, on the same draws

vars == << mode, ds, cfg, pc, round_num, agents, current_squad, proposal,
           pos1, pos2, club1_vote, club2_vote, successful_swaps, exc,
           pool_alias, pools, trade_executed_this_round, trade_log,
           last_vote, calibrations, result, progress, twin >>

squad1_size == Len(FirstClubIds)

Str(b) == IF b THEN "True" ELSE "False"

NoResult == [op |-> "none", squad |-> << >>, val |-> 0, exc |-> "none"]

NoVote == [who |-> 0, ret |-> FALSE, exc |-> "none", calibrated |-> FALSE,
           current_utility |-> 0, proposed_utility |-> 0]

\* the record kept of the vote v of agent who
Seen(who, v) ==
    [who |-> who, ret |-> v.ret, exc |-> v.exc, calibrated |-> v.calibrated,
     current_utility |-> v.current_utility, proposed_utility |-> v.proposed_utility]

\* what every vote step does with the outcome v of the call: the agent is
\* the object after the call; a value returned goes to the loop, an exception
\* leaves it
TakeVote(who, v, next_pc) ==
    /\ agents' = [agents EXCEPT ![who] = v.agent]
    /\ last_vote' = Seen(who, v)
    /\ calibrations' = [calibrations EXCEPT ![who] = @ + (IF v.calibrated THEN 1 ELSE 0)]
    /\ IF v.exc = "none"
       THEN /\ pc' = next_pc
            /\ IF who = 1
               THEN club1_vote' = Str(v.ret) /\ UNCHANGED club2_vote
               ELSE club2_vote' = Str(v.ret) /\ UNCHANGED club1_vote
            /\ UNCHANGED exc
       ELSE /\ pc' = "raised"
            /\ exc' = v.exc
            /\ UNCHANGED << club1_vote, club2_vote >>

\* a commit on either agent's consent
both_accept_either(vote1, vote2) == vote1 = "True" \/ vote2 = "True"

\* `if club1_vote and club2_vote:` (src/main.py line 134)
both_accept(vote1, vote2) == vote1 = "True" /\ vote2 = "True"

NoProgress == [round_num |-> -1, successful_swaps |-> 0, elapsed |-> 0]

\* what time.time() - start_time may read when a progress line is printed
Elapsed == {0, 1}

NoTwin ==
    [on |-> FALSE, pc |-> "none", round_num |-> 0, agents |-> << >>,
     current_squad |-> << >>, proposal |-> << >>, pos1 |-> -1, pos2 |-> -1,
     club1_vote |-> "none", club2_vote |-> "none", successful_swaps |-> 0,
     exc |-> "none", progress |-> NoProgress]

\* the locals of run_two_club_negotiation and the two agents, as one value
Run ==
    [on |-> TRUE, pc |-> pc, round_num |-> round_num, agents |-> agents,
     current_squad |-> current_squad, proposal |-> proposal,
     pos1 |-> pos1, pos2 |-> pos2,
     club1_vote |-> club1_vote, club2_vote |-> club2_vote,
     successful_swaps |-> successful_swaps, exc |-> exc, progress |-> progress]

\* the second run takes the step the first one takes
Follows(run) == run.on /\ run.pc = pc /\ run.round_num = round_num

\* lines 49-54 in the second run, on the draws p1 and p2
Twin_ProposeSwap(run, p1, p2) ==
    IF ~Follows(run) THEN run
    ELSE IF Len(run.current_squad) > 1
         THEN [run EXCEPT !.proposal = run.current_squad, !.pc = "while",
                          !.pos1 = p1, !.pos2 = p2]
         ELSE [run EXCEPT !.proposal = run.current_squad, !.pc = "vote1"]

\* lines 57-64 in the second run, on the draw p2
Twin_SwapWhile(run, p2) ==
    IF ~Follows(run) THEN run
    ELSE IF run.pos1 = run.pos2 /\ Len(run.proposal) > 1
         THEN [run EXCEPT !.pos2 = p2]
         ELSE [run EXCEPT
                 !.proposal = propose_player_swap(run.current_squad, run.pos1,
                                                  run.pos2).proposed_squad,
                 !.current_squad = propose_player_swap(run.current_squad, run.pos1,
                                                       run.pos2).current_squad,
                 !.pc = "vote1", !.pos1 = -1, !.pos2 = -1]

\* propose_team_shuffle in the second run, on the sample and the order f
Twin_ProposeShuffle(run, f) ==
    IF ~Follows(run) THEN run
    ELSE IF num_to_shuffle(Len(run.current_squad), ShufflePercentage)
              > Len(run.current_squad)
         THEN [run EXCEPT !.pc = "raised", !.exc = "ValueError"]
         ELSE [run EXCEPT
                 !.proposal = propose_team_shuffle(run.current_squad, f).proposed_squad,
                 !.current_squad = propose_team_shuffle(run.current_squad, f).current_squad,
                 !.pc = "vote1"]

\* what the second run does with the outcome v of a vote call
Twin_TakeVote(run, who, v, next_pc) ==
    IF v.exc = "none"
    THEN [run EXCEPT !.agents[who] = v.agent, !.pc = next_pc,
                     !.club1_vote = IF who = 1 THEN Str(v.ret) ELSE @,
                     !.club2_vote = IF who = 2 THEN Str(v.ret) ELSE @]
    ELSE [run EXCEPT !.agents[who] = v.agent, !.pc = "raised", !.exc = v.exc]

\* lines 130-131 in the second run, on the draw r
Twin_Vote(run, who, r) ==
    IF ~Follows(run) THEN run
    ELSE IF who = 1
         THEN Twin_TakeVote(run, 1,
                  ClubAgent_vote(run.agents[1], cfg, ds,
                                 Prefix(run.current_squad, squad1_size),
                                 Prefix(run.proposal, squad1_size), r), "vote2")
         ELSE Twin_TakeVote(run, 2,
                  ClubAgent_vote(run.agents[2], cfg, ds,
                                 Suffix(run.current_squad, squad1_size),
                                 Suffix(run.proposal, squad1_size), r), "decide")

\* a commit that is dropped once the clock has moved
commit_while_in_time(run, accepted, elapsed) ==
    [run EXCEPT
       !.successful_swaps = IF accepted /\ elapsed = 0 THEN @ + 1 ELSE @,
       !.current_squad = IF accepted /\ elapsed = 0 THEN run.proposal ELSE @,
       !.round_num = @ + 1,
       !.pc = IF run.round_num + 1 < MaxRounds THEN "propose" ELSE "done",
       !.club1_vote = "none", !.club2_vote = "none", !.proposal = << >>]

\* lines 134-143 and the loop's increment: the commit, which is decided by
\* `accepted`, and the progress line, which reads the clock
commit(run, accepted, elapsed) ==
    [run EXCEPT
       !.successful_swaps = IF accepted THEN @ + 1 ELSE @,
       !.current_squad = IF accepted THEN run.proposal ELSE @,
       !.progress =
           IF accepted /\ (run.successful_swaps + 1) % ProgressIntervalSwaps = 0
           THEN [round_num |-> run.round_num,
                 successful_swaps |-> run.successful_swaps + 1,
                 elapsed |-> elapsed]
           ELSE @,
       !.round_num = @ + 1,
       !.pc = IF run.round_num + 1 < MaxRounds THEN "propose" ELSE "done",
       !.club1_vote = "none", !.club2_vote = "none", !.proposal = << >>]

\* the commit step in the second run, on its own reading of the clock
Twin_Commit(run, elapsed) ==
    IF ~Follows(run) THEN run
    ELSE commit(run, both_accept(run.club1_vote, run.club2_vote), elapsed)

\* the first run's variables after the commit step, from its value `out`
Committed(out) ==
    /\ successful_swaps' = out.successful_swaps
    /\ current_squad' = out.current_squad
    /\ progress' = out.progress
    /\ round_num' = out.round_num
    /\ pc' = out.pc
    /\ club1_vote' = out.club1_vote
    /\ club2_vote' = out.club2_vote
    /\ proposal' = out.proposal

(***************************************************************************)
(* The index-based loop: run_two_club_negotiation of src/main.py.          *)
(***************************************************************************)
InitIndexWith(data, second_run) ==
    /\ mode = "index"
    /\ ds \in data
    /\ cfg = SA_CONFIG
    /\ pc = "propose"
    /\ round_num = 0
    /\ \E strategies \in {<<"balanced", "balanced">>, <<"offensive", "defensive">>} :
          agents = << set_players(NewClubAgent("A", strategies[1], << >>, cfg),
                                  FirstClubIds \o SecondClubIds),
                      set_players(NewClubAgent("B", strategies[2], << >>, cfg),
                                  FirstClubIds \o SecondClubIds) >>
    /\ current_squad = init_squads(Len(FirstClubIds \o SecondClubIds))
    /\ proposal = << >>
    /\ pos1 = -1
    /\ pos2 = -1
    /\ club1_vote = "none"
    /\ club2_vote = "none"
    /\ successful_swaps = 0
    /\ exc = "none"
    /\ pool_alias = TRUE
    /\ pools = << << >>, << >> >>
    /\ trade_executed_this_round = FALSE
    /\ trade_log = << >>
    /\ last_vote = NoVote
    /\ calibrations = <<0, 0>>
    /\ result = NoResult
    /\ progress = NoProgress
    /\ twin = IF second_run THEN Run ELSE NoTwin

InitIndex == InitIndexWith({"mixed", "close"}, FALSE)

IsShuffleRound == round_num % ShuffleEvery = 0 /\ round_num > 0

\* propose_player_swap: the copy and the two draws of lines 49-54
ProposeSwap ==
    /\ mode = "index" /\ pc = "propose" /\ round_num < MaxRounds
    /\ ~IsShuffleRound
    /\ proposal' = current_squad
    /\ IF Len(current_squad) > 1
       THEN /\ pc' = "while"
            /\ \E p1, p2 \in 0..(Len(current_squad) - 1) :
                  /\ pos1' = p1
                  /\ pos2' = p2
                  /\ twin' = Twin_ProposeSwap(twin, p1, p2)
       ELSE /\ pc' = "vote1"
            /\ twin' = Twin_ProposeSwap(twin, -1, -1)
            /\ UNCHANGED << pos1, pos2 >>
    /\ UNCHANGED << mode, progress, result, ds, cfg, round_num, agents, current_squad,
                    club1_vote, club2_vote, successful_swaps, exc,
                    pool_alias, pools, trade_executed_this_round, trade_log,
                    last_vote, calibrations >>

\* one test of the while loop of lines 57-58: redraw pos2, or leave the loop
\* and exchange the two slots (lines 61-64)
SwapWhile ==
    /\ mode = "index" /\ pc = "while"
    /\ IF pos1 = pos2 /\ Len(proposal) > 1
       THEN /\ \E p2 \in 0..(Len(proposal) - 1) :
                  /\ pos2' = p2
                  /\ twin' = Twin_SwapWhile(twin, p2)
            /\ UNCHANGED << pc, pos1, proposal, current_squad >>
       ELSE LET out == propose_player_swap(current_squad, pos1, pos2)
            IN  /\ proposal' = out.proposed_squad
                /\ current_squad' = out.current_squad
                /\ pc' = "vote1"
                /\ pos1' = -1
                /\ pos2' = -1
                /\ twin' = Twin_SwapWhile(twin, -1)
    /\ UNCHANGED << mode, progress, result, ds, cfg, round_num, agents,
                    club1_vote, club2_vote, successful_swaps, exc,
                    pool_alias, pools, trade_executed_this_round, trade_log,
                    last_vote, calibrations >>

\* propose_team_shuffle (lines 68-95); random.sample raises ValueError for a
\* sample larger than the list
ProposeShuffle ==
    /\ mode = "index" /\ pc = "propose" /\ round_num < MaxRounds
    /\ IsShuffleRound
    /\ IF num_to_shuffle(Len(current_squad), ShufflePercentage) > Len(current_squad)
       THEN /\ pc' = "raised"
            /\ exc' = "ValueError"
            /\ twin' = Twin_ProposeShuffle(twin, << >>)
            /\ UNCHANGED << proposal, current_squad >>
       ELSE /\ \E f \in ShuffleDraws(Len(current_squad),
                                     num_to_shuffle(Len(current_squad), ShufflePercentage)) :
                  /\ proposal' = propose_team_shuffle(current_squad, f).proposed_squad
                  /\ current_squad' = propose_team_shuffle(current_squad, f).current_squad
                  /\ twin' = Twin_ProposeShuffle(twin, f)
            /\ pc' = "vote1"
            /\ UNCHANGED exc
    /\ UNCHANGED << mode, progress, result, ds, cfg, round_num, agents, pos1, pos2,
                    club1_vote, club2_vote, successful_swaps,
                    pool_alias, pools, trade_executed_this_round, trade_log,
                    last_vote, calibrations >>

\* club1.vote(current_squad[:squad1_size], proposal[:squad1_size])
Vote1 ==
    /\ mode = "index" /\ pc = "vote1"
    /\ \E r \in Draws :
          /\ TakeVote(1, ClubAgent_vote(agents[1], cfg, ds, Prefix(current_squad, squad1_size),
                                        Prefix(proposal, squad1_size), r), "vote2")
          /\ twin' = Twin_Vote(twin, 1, r)
    /\ UNCHANGED << mode, progress, result, ds, cfg, round_num, current_squad, proposal, pos1, pos2,
                    successful_swaps,
                    pool_alias, pools, trade_executed_this_round, trade_log >>

\* a second vote that is called only when the first agent has accepted
Vote2_only_after_accept ==
    /\ mode = "index" /\ pc = "vote2"
    /\ IF club1_vote = "True"
       THEN \E r \in Draws :
               /\ TakeVote(2, ClubAgent_vote(agents[2], cfg, ds, Suffix(current_squad, squad1_size),
                                             Suffix(proposal, squad1_size), r), "decide")
               /\ twin' = Twin_Vote(twin, 2, r)
       ELSE /\ club2_vote' = "False"
            /\ pc' = "decide"
            /\ UNCHANGED << agents, last_vote, calibrations, club1_vote, exc, twin >>
    /\ UNCHANGED << mode, progress, result, ds, cfg, round_num, current_squad, proposal, pos1, pos2,
                    successful_swaps,
                    pool_alias, pools, trade_executed_this_round, trade_log >>

\* club2.vote(current_squad[squad1_size:], proposal[squad1_size:])
Vote2 ==
    /\ mode = "index" /\ pc = "vote2"
    /\ \E r \in Draws :
          /\ TakeVote(2, ClubAgent_vote(agents[2], cfg, ds, Suffix(current_squad, squad1_size),
                                        Suffix(proposal, squad1_size), r), "decide")
          /\ twin' = Twin_Vote(twin, 2, r)
    /\ UNCHANGED << mode, progress, result, ds, cfg, round_num, current_squad, proposal, pos1, pos2,
                    successful_swaps,
                    pool_alias, pools, trade_executed_this_round, trade_log >>

\* lines 134-143 and the loop's increment; each run reads the clock itself
Commit ==
    /\ mode = "index" /\ pc = "decide"
    /\ \E now1, now2 \in Elapsed :
          /\ Committed(commit(Run, both_accept(club1_vote, club2_vote), now1))
          /\ twin' = Twin_Commit(twin, now2)
    /\ UNCHANGED << mode, result, ds, cfg, agents, pos1, pos2, exc,
                    pool_alias, pools, trade_executed_this_round, trade_log,
                    last_vote, calibrations >>

NextIndex ==
    \/ ProposeSwap
    \/ SwapWhile
    \/ ProposeShuffle
    \/ Vote1
    \/ Vote2
    \/ Commit

(***************************************************************************)
(* The inter-club loop: run_club_negotiation of src/AgentenSystem/main.py. *)
(* The agents are objects of either class, with the fields the             *)
(* constructors assign; main() hands the mediator the agents' own lists.   *)
(***************************************************************************)
\* the club named first (the buyer) and the club named second (the seller)
Rosters == { << FirstClubIds, SecondClubIds >>, << FirstClubIds, << >> >> }

ClubAgentOf(kind, club_name, cfg_) ==
    IF kind = "BuyerClubAgent" THEN NewBuyerClubAgent(club_name, cfg_)
    ELSE NewSellerClubAgent(club_name, cfg_)

InitClubWith(alias, roster, pool) ==
    /\ mode = "club"
    /\ ds \in {"clubmixed", "samename"}
    /\ cfg = AS_SA_CONFIG
    /\ pc = "start"
    /\ round_num = 0
    /\ \E buyer_kind \in {"BuyerClubAgent", "SellerClubAgent"} :
          agents = << set_players(ClubAgentOf(buyer_kind, "A", cfg), roster[1]),
                      set_players(ClubAgentOf("SellerClubAgent", "B", cfg), roster[2]) >>
    /\ current_squad = << >>
    /\ proposal = << >>
    /\ pos1 = -1
    /\ pos2 = -1
    /\ club1_vote = "none"
    /\ club2_vote = "none"
    /\ successful_swaps = 0
    /\ exc = "none"
    /\ pool_alias = alias
    /\ pools = pool
    /\ trade_executed_this_round = FALSE
    /\ trade_log = << >>
    /\ last_vote = NoVote
    /\ calibrations = <<0, 0>>
    /\ result = NoResult
    /\ twin = NoTwin
    /\ progress = NoProgress

\* main(): ClubBasedFootballMediator(buyer_club.players, seller_club.players)
InitClub == \E roster \in Rosters : InitClubWith(TRUE, roster, << << >>, << >> >>)

\* buyer_players_pool (i = 1) and seller_players_pool (i = 2)
Pool(i) == IF pool_alias THEN agents[i].players ELSE pools[i]

\* a remove that leaves the list as it was
Remove_nothing(list, x) == list

\* list.remove(x): without the first entry equal to x; x is in the list
Remove(list, x) ==
    LET k == CHOOSE i \in DOMAIN list : list[i] = x /\ \A j \in 1..(i - 1) : list[j] # x
    IN  SubSeq(list, 1, k - 1) \o SubSeq(list, k + 1, Len(list))

InList(list, x) == \E i \in DOMAIN list : list[i] = x

\* lines 238-239: the initial utilities
ClubStart ==
    /\ mode = "club" /\ pc = "start"
    /\ LET u1 == calculate_utility_for_hypothetical_squad(agents[1], ds, agents[1].players)
           u2 == calculate_utility_for_hypothetical_squad(agents[2], ds, agents[2].players)
       IN  /\ agents' = IF u1.exc # "none"
                        THEN [agents EXCEPT ![1].players = u1.players]
                        ELSE [agents EXCEPT ![1].players = u1.players,
                                            ![2].players = u2.players]
           /\ IF u1.exc # "none" \/ u2.exc # "none"
              THEN /\ pc' = "raised"
                   /\ exc' = IF u1.exc # "none" THEN u1.exc ELSE u2.exc
              ELSE /\ pc' = IF MaxRounds > 0 THEN "propose" ELSE "done"
                   /\ UNCHANGED exc
    /\ UNCHANGED << mode, twin, progress, result, ds, cfg, round_num, current_squad, proposal, pos1, pos2,
                    club1_vote, club2_vote, successful_swaps, pool_alias, pools,
                    trade_executed_this_round, trade_log, last_vote, calibrations >>

\* propose_inter_club_swap and the break of lines 258-261
ClubPropose ==
    /\ mode = "club" /\ pc = "propose" /\ round_num < MaxRounds
    /\ IF Len(Pool(1)) = 0 \/ Len(Pool(2)) = 0
       THEN /\ pc' = "done"
            /\ UNCHANGED proposal
       ELSE /\ \E i \in DOMAIN Pool(1), j \in DOMAIN Pool(2) :
                  proposal' = << Pool(1)[i], Pool(2)[j] >>
            /\ pc' = "vote1"
    /\ UNCHANGED << mode, twin, progress, result, ds, cfg, round_num, agents, current_squad, pos1, pos2,
                    club1_vote, club2_vote, successful_swaps, exc, pool_alias, pools,
                    trade_executed_this_round, trade_log, last_vote, calibrations >>

\* buyer_club.vote(proposed_buyer_player, proposed_seller_player)
ClubVoteBuyer ==
    /\ mode = "club" /\ pc = "vote1"
    /\ \E r \in Draws :
          TakeVote(1, vote(agents[1], cfg, ds, proposal[1], proposal[2], r), "vote2")
    /\ UNCHANGED << mode, twin, progress, result, ds, cfg, round_num, current_squad, proposal, pos1, pos2,
                    successful_swaps, pool_alias, pools,
                    trade_executed_this_round, trade_log >>

\* seller_club.vote(proposed_seller_player, proposed_buyer_player)
ClubVoteSeller ==
    /\ mode = "club" /\ pc = "vote2"
    /\ \E r \in Draws :
          TakeVote(2, vote(agents[2], cfg, ds, proposal[2], proposal[1], r), "decide")
    /\ UNCHANGED << mode, twin, progress, result, ds, cfg, round_num, current_squad, proposal, pos1, pos2,
                    successful_swaps, pool_alias, pools,
                    trade_executed_this_round, trade_log >>

\* lines 269-293: the exchange, statement by statement; a ValueError of
\* list.remove ends the try block where it is raised
ClubTrade ==
    /\ mode = "club" /\ pc = "decide"
    /\ LET buyer_players == agents[1].players
           seller_players == agents[2].players
           buyer_after == Append(Remove(buyer_players, proposal[1]), proposal[2])
           seller_after == Append(Remove(seller_players, proposal[2]), proposal[1])
       IN  IF ~both_accept(club1_vote, club2_vote)
           THEN /\ trade_executed_this_round' = FALSE
                /\ UNCHANGED << agents, successful_swaps >>
           ELSE IF ~InList(buyer_players, proposal[1])
           THEN /\ trade_executed_this_round' = FALSE
                /\ UNCHANGED << agents, successful_swaps >>
           ELSE IF ~InList(seller_players, proposal[2])
           THEN /\ trade_executed_this_round' = FALSE
                /\ agents' = [agents EXCEPT ![1].players = buyer_after]
                /\ UNCHANGED successful_swaps
           ELSE /\ trade_executed_this_round' = TRUE
                /\ agents' = [agents EXCEPT ![1].players = buyer_after,
                                            ![2].players = seller_after]
                /\ successful_swaps' = successful_swaps + 1
    /\ pc' = "record"
    /\ UNCHANGED << mode, twin, progress, result, ds, cfg, round_num, current_squad, proposal, pos1, pos2,
                    club1_vote, club2_vote, exc, pool_alias, pools, trade_log,
                    last_vote, calibrations >>

\* record_trade_decision (lines 296-302) and the loop's increment
ClubRecord ==
    /\ mode = "club" /\ pc = "record"
    /\ trade_log' = Append(trade_log,
          [buyer_player_offered_name |-> DataSets[ds][proposal[1]].name,
           seller_player_offered_name |-> DataSets[ds][proposal[2]].name,
           buyer_accepted |-> club1_vote = "True",
           seller_accepted |-> club2_vote = "True",
           trade_executed |-> trade_executed_this_round])
    /\ round_num' = round_num + 1
    /\ pc' = IF round_num + 1 < MaxRounds THEN "propose" ELSE "done"
    /\ club1_vote' = "none"
    /\ club2_vote' = "none"
    /\ proposal' = << >>
    /\ trade_executed_this_round' = FALSE
    /\ UNCHANGED << mode, twin, progress, result, ds, cfg, agents, current_squad, pos1, pos2,
                    successful_swaps, exc, pool_alias, pools, last_vote, calibrations >>

NextClub ==
    \/ ClubStart
    \/ ClubPropose
    \/ ClubVoteBuyer
    \/ ClubVoteSeller
    \/ ClubTrade
    \/ ClubRecord

Init == InitIndex \/ InitClub

Next == NextIndex \/ NextClub

Spec == Init /\ [][Next]_vars

(***************************************************************************)
(* Properties of the two loops.                                            *)
(***************************************************************************)
ExchangedBuyer == Append(Remove(agents[1].players, proposal[1]), proposal[2])
ExchangedSeller == Append(Remove(agents[2].players, proposal[2]), proposal[1])
PlayersOf(a) == << a[1].players, a[2].players >>

\* C1: in every round the proposal is committed (the current squad replaced
\* by the proposal, or the two players exchanged) if and only if both votes
\* of the round returned true; otherwise the squads after the round are the
\* squads before it
C1_CommitIffBothAccept ==
    [][ /\ (mode = "index" /\ pc = "decide") =>
              IF club1_vote = "True" /\ club2_vote = "True"
              THEN current_squad' = proposal /\ successful_swaps' = successful_swaps + 1
              ELSE current_squad' = current_squad /\ successful_swaps' = successful_swaps
        /\ (mode = "club" /\ pc = "decide") =>
              IF club1_vote = "True" /\ club2_vote = "True"
              THEN /\ PlayersOf(agents') = << ExchangedBuyer, ExchangedSeller >>
                   /\ trade_executed_this_round'
                   /\ successful_swaps' = successful_swaps + 1
              ELSE /\ PlayersOf(agents') = PlayersOf(agents)
                   /\ ~trade_executed_this_round'
                   /\ successful_swaps' = successful_swaps
      ]_vars

\* one proposal committed and one rejected
C1_Witness ==
    /\ mode = "index" /\ round_num = 2 /\ successful_swaps = 1
    /\ current_squad # init_squads(Len(current_squad))

\* C2: a vote that found proposed_utility > current_utility returned true,
\* in warm-up, in the calibration vote and in cooling
C2_ImprovementAccepted ==
    (last_vote.who # 0 /\ last_vote.proposed_utility > last_vote.current_utility)
        => (last_vote.ret /\ last_vote.exc = "none")

\* an improvement voted on in the cooling phase
C2_Witness ==
    /\ last_vote.who # 0
    /\ last_vote.proposed_utility > last_vote.current_utility
    /\ last_vote.ret
    /\ agents[last_vote.who].cur_iter > agents[last_vote.who].max_sim

IsPermutation(squad, n) ==
    /\ Len(squad) = n
    /\ \A k \in 0..(n - 1) : Cardinality({i \in DOMAIN squad : squad[i] = k}) = 1

\* C3: in the index-based loop the current squad, and every proposal made
\* from it, is a permutation of 0..N-1
C3_SquadIsPermutation ==
    mode = "index" =>
        /\ IsPermutation(current_squad, Len(agents[1].players))
        /\ (pc \in {"vote1", "vote2", "decide"} =>
               IsPermutation(proposal, Len(agents[1].players)))

\* a swap and a shuffle have been committed
C3_Witness ==
    /\ mode = "index" /\ round_num = MaxRounds /\ successful_swaps = MaxRounds
    /\ current_squad # init_squads(Len(current_squad))

\* C4: once an agent's calibration vote is over, its temperature is at
\* least MIN_TEMPERATURE
C4_TemperatureFloor ==
    \A i \in 1..2 :
        (calibrations[i] > 0 /\ exc = "none") => agents[i].t >= cfg.MIN_TEMPERATURE

\* C5: cur_iter never decreases; the calibration branch has run exactly once
\* for an agent whose cur_iter has reached max_sim and never before; a vote
\* without it leaves delta_t and avg_delta alone, and a vote after it only
\* cools
C5_CalibratedOnce ==
    [][ \A i \in 1..2 :
          /\ agents'[i].cur_iter >= agents[i].cur_iter
          /\ calibrations'[i] = (IF agents'[i].cur_iter >= agents'[i].max_sim THEN 1 ELSE 0)
          /\ (calibrations'[i] = calibrations[i] =>
                 /\ agents'[i].delta_t = agents[i].delta_t
                 /\ agents'[i].avg_delta = agents[i].avg_delta)
          /\ (agents[i].cur_iter >= agents[i].max_sim =>
                 agents'[i].t \in { agents[i].t,
                                    Max2(agents[i].t - agents[i].delta_t,
                                         cfg.MIN_TEMPERATURE) })
          /\ (pc' = "done" /\ mode = "index" /\ MaxRounds >= CalibrationIterations =>
                 calibrations'[i] = 1)
      ]_vars

\* both agents calibrated and then cooled
C5_Witness ==
    /\ mode = "index" /\ pc = "done"
    /\ calibrations = <<1, 1>>
    /\ \A i \in 1..2 : agents[i].cur_iter > agents[i].max_sim

(***************************************************************************)
(* Two runs of the index-based loop from one starting state, fed the same  *)
(* draws of the random source; each reads the wall clock for itself.       *)
(***************************************************************************)
InitTwin == InitIndexWith({"close"}, TRUE)

SpecTwin == InitTwin /\ [][NextIndex]_vars

\* what a run has proposed, voted and committed: everything but the clock
\* reading in its progress line
Decisions(run) == [run EXCEPT !.progress.elapsed = 0]

C7_OnlyCommitChangesSquads ==
    [][ pc # "decide" =>
           /\ current_squad' = current_squad
           /\ PlayersOf(agents') = PlayersOf(agents) ]_vars

\* a proposal differing from the squad has been voted on and rejected
C7_Witness ==
    /\ pc = "decide" /\ club1_vote = "True" /\ club2_vote = "False"
    /\ proposal # current_squad

(***************************************************************************)
(* run_club_negotiation with a mediator whose pools are lists of their own *)
(* (the mediator is a parameter of the function): copies of the agents'    *)
(* lists, or the lists as they were before players 2 and 3 changed clubs.  *)
(***************************************************************************)
InitStale ==
    \/ InitClubWith(FALSE, << FirstClubIds, SecondClubIds >>,
                    << FirstClubIds, SecondClubIds >>)
    \/ InitClubWith(FALSE, << <<1, 3>>, <<4, 2>> >>,
                    << FirstClubIds, SecondClubIds >>)

SpecStale == InitStale /\ [][NextClub]_vars

\* the player agent i is asked to give in this round is not in its list
GiveMissing(i) == proposal # << >> /\ ~InList(agents[i].players, proposal[i])

\* C8: when the player an agent is asked to give is not in its players list,
\* its vote returns false without an exception, the trade of the round is
\* not executed, the round is logged as not executed and the loop goes on
C8_MissingPlayerRejected ==
    [][ mode = "club" =>
          /\ (pc = "vote1" /\ GiveMissing(1)) =>
                (exc' = "none" /\ club1_vote' = "False" /\ pc' = "vote2")
          /\ (pc = "vote2" /\ GiveMissing(2)) =>
                (exc' = "none" /\ club2_vote' = "False" /\ pc' = "decide")
          /\ (pc = "decide" /\ (GiveMissing(1) \/ GiveMissing(2))) =>
                (~trade_executed_this_round' /\ PlayersOf(agents') = PlayersOf(agents))
          /\ (pc = "record" /\ ~trade_executed_this_round) =>
                (/\ ~trade_log'[Len(trade_log')].trade_executed
                 /\ pc' \in {"propose", "done"})
      ]_vars

\* a SellerClubAgent asked for a player it does not hold has voted false
C8_Witness ==
    /\ mode = "club" /\ pc = "vote2" /\ GiveMissing(1)
    /\ agents[1].kind = "SellerClubAgent" /\ club1_vote = "False"

(***************************************************************************)
(* Direct calls of vote under configurations other than the shipped one.   *)
(***************************************************************************)
\* SA_CONFIG base with one entry changed
Configurations(base) ==
    { base,
      [base EXCEPT !.MAX_ITERATIONS = base.CALIBRATION_ITERATIONS],
      [base EXCEPT !.MIN_CALIBRATION_RATE = SCALE],
      [base EXCEPT !.MIN_CALIBRATION_RATE = 0],
      [base EXCEPT !.MIN_CALIBRATION_RATE = 2 * SCALE] }

\* the utilities the two squads of a call evaluate to
Utilities == {0, 250 * SCALE, 300 * SCALE}

AgentOfClass(kind, club_name, cfg_) ==
    IF kind = "ClubAgent" THEN NewClubAgent(club_name, "balanced", << >>, cfg_)
    ELSE ClubAgentOf(kind, club_name, cfg_)

InitConfig ==
    /\ mode = "vote"
    /\ ds = "mixed"
    /\ \E kind \in {"ClubAgent", "BuyerClubAgent", "SellerClubAgent"} :
          /\ cfg \in Configurations(IF kind = "ClubAgent" THEN SA_CONFIG ELSE AS_SA_CONFIG)
          /\ agents = << AgentOfClass(kind, "A", cfg), AgentOfClass(kind, "B", cfg) >>
    /\ pc = "call"
    /\ round_num = 0
    /\ current_squad = << >>
    /\ proposal = << >>
    /\ pos1 = -1
    /\ pos2 = -1
    /\ club1_vote = "none"
    /\ club2_vote = "none"
    /\ successful_swaps = 0
    /\ exc = "none"
    /\ pool_alias = TRUE
    /\ pools = << << >>, << >> >>
    /\ trade_executed_this_round = FALSE
    /\ trade_log = << >>
    /\ last_vote = NoVote
    /\ calibrations = <<0, 0>>
    /\ result = NoResult
    /\ twin = NoTwin
    /\ progress = NoProgress

\* one call of vote on the first agent, the squads evaluating to
\* current_utility and proposed_utility; the value random.random() gives
\* when the call draws is kept in result
CallVote ==
    /\ mode = "vote" /\ pc = "call"
    /\ agents[1].cur_iter < MaxIterations
    /\ \E current_utility, proposed_utility \in Utilities, r \in Draws :
          /\ TakeVote(1, Anneal(agents[1], cfg, current_utility, proposed_utility, r), "call")
          /\ result' = [op |-> "vote", draw |-> r]
    /\ UNCHANGED << mode, twin, progress, ds, cfg, round_num, current_squad, proposal, pos1, pos2,
                    successful_swaps, pool_alias, pools,
                    trade_executed_this_round, trade_log >>

SpecConfig == InitConfig /\ [][CallVote]_vars

\* C9: a call of vote never raises, whatever the utilities and the
\* configuration: an arithmetic failure ends in the vote returning false
C9_VoteNeverRaises ==
    mode = "vote" => (last_vote.exc = "none" /\ exc = "none")

(***************************************************************************)
(* Direct calls of the age bonus and of the squad evaluation.              *)
(***************************************************************************)
AgentClasses ==
    {"FootballAgent", "ClubAgent", "AS_FootballAgent", "BuyerClubAgent", "SellerClubAgent"}

\* an agent of the class; FootballAgent (either file) with the weights of a
\* subclass, its own methods being those called
InstanceOf(class) ==
    CASE class \in {"FootballAgent", "ClubAgent"} ->
            [NewClubAgent("A", "balanced", << >>, SA_CONFIG) EXCEPT !.kind = class]
      [] class = "AS_FootballAgent" ->
            [NewBuyerClubAgent("A", AS_SA_CONFIG) EXCEPT !.kind = "FootballAgent"]
      [] OTHER -> ClubAgentOf(class, "A", AS_SA_CONFIG)

IsRoot(class) == class \in {"FootballAgent", "ClubAgent"}

\* the squads handed to the calls: index lists of length 0, 1, 2
SquadLists == { << >> } \cup { <<i>> : i \in 0..1 } \cup { <<i, j>> : i, j \in 0..1 }

InitEmpty ==
    /\ mode \in AgentClasses
    /\ ds = IF IsRoot(mode) THEN "mixed" ELSE "clubmixed"
    /\ cfg = IF IsRoot(mode) THEN SA_CONFIG ELSE AS_SA_CONFIG
    /\ \E players \in { FirstClubIds, SecondClubIds } :
          agents = << set_players(InstanceOf(mode), players),
                      set_players(InstanceOf(mode), players) >>
    /\ pc = "call"
    /\ round_num = 0
    /\ current_squad = << >>
    /\ proposal = << >>
    /\ pos1 = -1
    /\ pos2 = -1
    /\ club1_vote = "none"
    /\ club2_vote = "none"
    /\ successful_swaps = 0
    /\ exc = "none"
    /\ pool_alias = TRUE
    /\ pools = << << >>, << >> >>
    /\ trade_executed_this_round = FALSE
    /\ trade_log = << >>
    /\ last_vote = NoVote
    /\ calibrations = <<0, 0>>
    /\ result = NoResult
    /\ twin = NoTwin
    /\ progress = NoProgress

\* the age bonus of the class of the first agent for the squad
AgeBonusOf(class, ag, squad) ==
    CASE class = "FootballAgent" -> Val(RootFootballAgent_calculate_age_bonus(ag, ds, squad))
      [] class = "ClubAgent" -> Val(ClubAgent_calculate_age_bonus(ag, ds, squad))
      [] OTHER -> calculate_age_bonus(ag.kind, ds, ag.players, squad)

\* agent._calculate_age_bonus(squad)
CallAgeBonus ==
    /\ mode \in AgentClasses /\ pc = "call"
    /\ \E squad \in SquadLists :
          LET out == AgeBonusOf(mode, agents[1], squad)
          IN  result' = [op |-> "_calculate_age_bonus", squad |-> squad,
                         val |-> out.val, exc |-> out.exc]
    /\ UNCHANGED << mode, twin, progress, ds, cfg, pc, round_num, agents, current_squad, proposal,
                    pos1, pos2, club1_vote, club2_vote, successful_swaps, exc,
                    pool_alias, pools, trade_executed_this_round, trade_log,
                    last_vote, calibrations >>

\* agent.evaluate_squad(squad)
CallEvaluateSquad ==
    /\ mode \in AgentClasses /\ pc = "call"
    /\ \E squad \in SquadLists :
          LET out == IF mode = "ClubAgent"
                     THEN Val(ClubAgent_evaluate_squad(agents[1], ds, squad))
                     ELSE IF mode = "FootballAgent"
                     THEN Val(FootballAgent_evaluate_squad(agents[1], ds, squad))
                     ELSE evaluate_squad(agents[1], ds, ListObj(squad))
          IN  result' = [op |-> "evaluate_squad", squad |-> squad,
                         val |-> out.val, exc |-> out.exc]
    /\ UNCHANGED << mode, twin, progress, ds, cfg, pc, round_num, agents, current_squad, proposal,
                    pos1, pos2, club1_vote, club2_vote, successful_swaps, exc,
                    pool_alias, pools, trade_executed_this_round, trade_log,
                    last_vote, calibrations >>

NextEmpty == CallAgeBonus \/ CallEvaluateSquad

SpecEmpty == InitEmpty /\ [][NextEmpty]_vars

\* C10: for every agent class the age bonus of an empty squad is 0, and
\* neither it nor the evaluation of an empty squad raises
C10_EmptySquadAgeBonus ==
    (mode \in AgentClasses /\ result.op # "none" /\ result.squad = << >>) =>
        /\ result.exc = "none"
        /\ (result.op = "_calculate_age_bonus" => result.val = 0)

(***************************************************************************)
(* The length of a negotiation.                                            *)
(***************************************************************************)
\* the loop has been entered and left by an exception
RoundRaised == pc = "raised" /\ (mode = "index" \/ proposal # << >>)

\* C11: the loop is left only after MAX_ROUNDS rounds, never by an
\* exception out of a round, and every round that reaches its decision has
\* one proposal and one vote of each agent
C11_ExactlyMaxRounds ==
    mode \in {"index", "club"} =>
        /\ pc = "done" => round_num = MaxRounds
        /\ ~RoundRaised
        /\ pc = "decide" =>
              proposal # << >> /\ club1_vote # "none" /\ club2_vote # "none"

(***************************************************************************)
(* The mediator's trade log.                                               *)
(***************************************************************************)
\* the rounds of the inter-club loop that yielded a proposal and are over
RoundsOver == round_num + (IF RoundRaised THEN 1 ELSE 0)

Executed(log) == { k \in DOMAIN log : log[k].trade_executed }

\* C12: a step of the inter-club loop leaves trade_log as it was or appends
\* one record to it; there is one record for every round over that yielded a
\* proposal; outside the lines between the counter's increment and the
\* record of the same round, the records with trade_executed number as many
\* as accepted swaps; an executed record has both acceptances
C12_TradeLogAppendOnly ==
    [][mode = "club" =>
        /\ Len(trade_log') \in {Len(trade_log), Len(trade_log) + 1}
        /\ SubSeq(trade_log', 1, Len(trade_log)) = trade_log
        /\ Len(trade_log') = RoundsOver'
        /\ pc' # "record" => Cardinality(Executed(trade_log')) = successful_swaps'
        /\ \A k \in Executed(trade_log') :
              trade_log'[k].buyer_accepted /\ trade_log'[k].seller_accepted]_vars

C12_Witness ==
    /\ mode = "club" /\ pc = "done"
    /\ Executed(trade_log) # {}
    /\ \E k \in DOMAIN trade_log : ~trade_log[k].trade_executed

(***************************************************************************)
(* Two agents built one after the other, in two worlds that differ only in *)
(* the weights of the agent that is not observed.  Each constructor call   *)
(* of ClubAgent builds its dictionary of base weights anew and multiplies  *)
(* the strategy into that one; the buyer and the seller read theirs from   *)
(* the configuration or the override and copy the position weights.        *)
(* `shared` is the dictionary of base weights a later call starts from.    *)
(***************************************************************************)
SharedAtImport == [weights_dict |-> ClubBaseWeights]

\* the base weights kept in one dictionary that every constructor call
\* multiplies into
ClubAgent_construct_one_dict(shared, club_name, strategy, cfg_) ==
    LET mult == IF strategy \in DOMAIN STRATEGY_CONFIG
                THEN STRATEGY_CONFIG[strategy].ATTRIBUTE_MULTIPLIERS ELSE << >>
        weights_dict == [a \in AttrNames |->
                            IF a \in DOMAIN mult
                            THEN FMul(shared.weights_dict[a], mult[a])
                            ELSE shared.weights_dict[a]]
    IN  [agent |-> [NewClubAgent(club_name, strategy, << >>, cfg_) EXCEPT
                       !.attribute_weights =
                           Normalize([k \in DOMAIN attribute_order |->
                                         weights_dict[attribute_order[k]]])],
         shared |-> [weights_dict |-> weights_dict]]

\* ClubAgent(club_name, strategy): the agent, and what the call leaves for
\* the next one
ClubAgent_construct(shared, club_name, strategy, cfg_) ==
    [agent |-> NewClubAgent(club_name, strategy, << >>, cfg_), shared |-> shared]

\* Club A and then Club B, each given the whole player list
BuiltClubAgents(first, strategy2, cfg_) ==
    [agents |-> << set_players(first.agent, FirstClubIds \o SecondClubIds),
                   set_players(ClubAgent_construct(first.shared, "B", strategy2, cfg_).agent,
                               FirstClubIds \o SecondClubIds) >>,
     shared |-> ClubAgent_construct(first.shared, "B", strategy2, cfg_).shared]

\* the buyer and then the seller, the seller as its constructor is written
\* to leave it; << >> stands for an override of None
BuiltBuyerSeller(attribute_weights_override, cfg_) ==
    [agents |-> << set_players(NewBuyerClubAgent("A", cfg_), FirstClubIds),
                   set_players(IF attribute_weights_override = << >>
                               THEN NewSellerClubAgent("B", cfg_)
                               ELSE NewAgent("SellerClubAgent", "B",
                                             attribute_weights_override,
                                             SELLER_CONFIG.POSITION_WEIGHTS, cfg_),
                               SecondClubIds) >>,
     shared |-> SharedAtImport]

WeightsOf(a) ==
    [i \in DOMAIN a |-> << a[i].attribute_weights, a[i].position_weights >>]

\* the two worlds at the start
SecretWorlds(observed, world, other_world) ==
    /\ agents = world.agents
    /\ twin = [on |-> TRUE, observed |-> observed, agents |-> other_world.agents,
               shared |-> << world.shared, other_world.shared >>,
               weights |-> << WeightsOf(world.agents), WeightsOf(other_world.agents) >>,
               last_vote |-> NoVote, caller |-> 0, result |-> NoResult]

InitSecret ==
    /\ mode = "secret"
    /\ ds \in {"mixed", "clubmixed"}
    /\ cfg = IF ds = "mixed" THEN SA_CONFIG ELSE AS_SA_CONFIG
    /\ IF ds = "mixed"
       THEN \E own \in {"balanced"},
               other \in {"balanced", "defensive"}, other2 \in {"offensive"} :
               /\ \/ SecretWorlds(1,
                        BuiltClubAgents(ClubAgent_construct(SharedAtImport, "A", own, cfg), other, cfg),
                        BuiltClubAgents(ClubAgent_construct(SharedAtImport, "A", own, cfg), other2, cfg))
                  \/ SecretWorlds(2,
                        BuiltClubAgents(ClubAgent_construct(SharedAtImport, "A", other, cfg), own, cfg),
                        BuiltClubAgents(ClubAgent_construct(SharedAtImport, "A", other2, cfg), own, cfg))
       ELSE SecretWorlds(1, BuiltBuyerSeller(<< >>, cfg),
                            BuiltBuyerSeller(BUYER_CONFIG.ATTRIBUTE_WEIGHTS, cfg))
    /\ pc = "call"
    /\ round_num = 0
    /\ current_squad = << >>
    /\ proposal = << >>
    /\ pos1 = -1
    /\ pos2 = -1
    /\ club1_vote = "none"
    /\ club2_vote = "none"
    /\ successful_swaps = 0
    /\ exc = "none"
    /\ pool_alias = TRUE
    /\ pools = << << >>, << >> >>
    /\ trade_executed_this_round = FALSE
    /\ trade_log = << >>
    /\ last_vote = NoVote
    /\ calibrations = <<0, 0>>
    /\ result = NoResult
    /\ progress = NoProgress

\* agent.vote(...) of an agent of its class: two squads for a ClubAgent and
\* a buyer, the player to give and the player of the other club to receive
\* for a seller
VoteCall(a, who, current, proposed, r) ==
    CASE a[who].kind = "ClubAgent" ->
            ClubAgent_vote(a[who], cfg, ds, current, proposed, r)
      [] a[who].kind = "BuyerClubAgent" ->
            BuyerClubAgent_vote(a[who], cfg, ds, ListObj(current), ListObj(proposed), r)
      [] OTHER ->
            SellerClubAgent_vote(a[who], cfg, ds,
                                 a[who].players[current[1] + 1],
                                 a[3 - who].players[proposed[1] + 1], r)

\* the same call of vote, with the same draw, in both worlds
SecretVote ==
    /\ mode = "secret" /\ pc = "call"
    /\ \E who \in 1..2, current, proposed \in { <<0, 1>>, <<1, 1>> }, r \in Draws :
          /\ agents[who].cur_iter < (IF who = twin.observed THEN MaxIterations ELSE 1)
          /\ TakeVote(who, VoteCall(agents, who, current, proposed, r), "call")
          /\ twin' = [twin EXCEPT
                 !.agents[who] = VoteCall(twin.agents, who, current, proposed, r).agent,
                 !.last_vote = Seen(who, VoteCall(twin.agents, who, current, proposed, r))]
    /\ UNCHANGED << mode, progress, result, ds, cfg, round_num, current_squad, proposal, pos1, pos2,
                    successful_swaps, pool_alias, pools,
                    trade_executed_this_round, trade_log >>

\* evaluate_squad(squad) or, for a squad of one, evaluate_player of that
\* player, in both worlds
EvaluateCall(a, who, op, squad) ==
    IF op = "evaluate_player"
    THEN [op |-> op, squad |-> squad, exc |-> "none",
          val |-> evaluate_player(a[who].attribute_weights, PlayerAt(a[who], ds, squad[1]))]
    ELSE IF a[who].kind = "ClubAgent"
    THEN [op |-> op, squad |-> squad, exc |-> "none",
          val |-> ClubAgent_evaluate_squad(a[who], ds, squad)]
    ELSE [op |-> op, squad |-> squad,
          exc |-> evaluate_squad(a[who], ds, ListObj(squad)).exc,
          val |-> evaluate_squad(a[who], ds, ListObj(squad)).val]

SecretEvaluate ==
    /\ mode = "secret" /\ pc = "call"
    /\ \E who \in {twin.observed}, op \in {"evaluate_player", "evaluate_squad"},
          squad \in { <<0>>, <<0, 1>> } :
          /\ op = "evaluate_player" <=> Len(squad) = 1
          /\ result' = EvaluateCall(agents, who, op, squad)
          /\ twin' = [twin EXCEPT !.caller = who,
                                  !.result = EvaluateCall(twin.agents, who, op, squad)]
    /\ UNCHANGED << mode, progress, ds, cfg, pc, round_num, agents, current_squad, proposal,
                    pos1, pos2, club1_vote, club2_vote, successful_swaps, exc,
                    pool_alias, pools, trade_executed_this_round, trade_log,
                    last_vote, calibrations >>

NextSecret == SecretVote \/ SecretEvaluate

SpecSecret == InitSecret /\ [][NextSecret]_vars

\* C13: whatever weights the other agent holds, the observed agent's
\* evaluate_player, evaluate_squad and vote results and its annealing state
\* are the same after the same calls and draws, and neither constructing
\* nor running an agent changes a weight vector: every agent keeps the
\* weights its own construction gave it, and the dictionary a later
\* constructor starts from stays as it was
C13_OtherWeightsStaySecret ==
    mode = "secret" =>
        /\ agents[twin.observed] = twin.agents[twin.observed]
        /\ last_vote.who = twin.observed => last_vote = twin.last_vote
        /\ twin.caller = twin.observed => result = twin.result
        /\ twin.shared = << SharedAtImport, SharedAtImport >>
        /\ twin.weights = << WeightsOf(agents), WeightsOf(twin.agents) >>

C13_Witness ==
    /\ mode = "secret"
    /\ WeightsOf(agents)[3 - twin.observed] # WeightsOf(twin.agents)[3 - twin.observed]
    /\ agents[twin.observed].cur_iter > CalibrationIterations
    /\ agents[3 - twin.observed].cur_iter > 0
    /\ last_vote.who = twin.observed
    /\ last_vote.current_utility > last_vote.proposed_utility
    /\ twin.caller = twin.observed /\ result.op = "evaluate_squad" /\ result.val # 0

(***************************************************************************)
(* Player._parse_value of the two Player classes.  A string is the         *)
(* sequence of its characters; a float is a decimal number, digits and     *)
(* exponent of ten, and the products by 1000 and 1000000 are exact.        *)
(***************************************************************************)
RECURSIVE replace(_, _)
\* s.replace(old, ""): the leftmost occurrences of old, not overlapping
replace(s, old) ==
    IF Len(s) < Len(old) THEN s
    ELSE IF SubSeq(s, 1, Len(old)) = old
    THEN replace(SubSeq(s, Len(old) + 1, Len(s)), old)
    ELSE << s[1] >> \o replace(Tail(s), old)

\* s.upper(), for the letters of the strings used
upper(s) ==
    [i \in DOMAIN s |-> CASE s[i] = "k" -> "K" [] s[i] = "m" -> "M" [] OTHER -> s[i]]

RECURSIVE int(_)
\* the number a string of decimal digits writes; int(<< >>) = 0
int(s) ==
    IF s = << >> THEN 0
    ELSE 10 * int(SubSeq(s, 1, Len(s) - 1))
         + (CHOOSE d \in 0..9 : <<"0", "1", "2", "3", "4", "5", "6", "7", "8", "9">>[d + 1] = s[Len(s)])

RECURSIVE Decimal(_, _)
\* the float digits * 10^exp, written without trailing zeros in digits
Decimal(digits, exp) ==
    IF digits = 0 THEN [digits |-> 0, exp |-> 0]
    ELSE IF digits % 10 = 0 THEN Decimal(digits \div 10, exp + 1)
    ELSE [digits |-> digits, exp |-> exp]

\* float(s): digits with at most one decimal point and at least one digit;
\* anything else raises ValueError
float(s) ==
    LET points == { i \in DOMAIN s : s[i] = "." }
        point == IF points = {} THEN Len(s) ELSE CHOOSE i \in points : TRUE
    IN  IF /\ Cardinality(points) <= 1
           /\ Len(s) > Cardinality(points)
           /\ \A i \in DOMAIN s : s[i] \in {"0", "1", "2", "3", "4", "5", "6", "7", "8", "9", "."}
        THEN [exc |-> "none",
              val |-> Decimal(int(replace(s, <<".">>)), point - Len(s))]
        ELSE [exc |-> "ValueError", val |-> Decimal(0, 0)]

\* float(s) * 10^exp, 0.0 where float raises ValueError
float_times_or_zero(s, exp) ==
    IF float(s).exc = "none"
    THEN Decimal(float(s).val.digits, float(s).val.exp + exp)
    ELSE Decimal(0, 0)

\* src/PlayerAgent.py, Player._parse_value
parse_value(value_str) ==
    LET clean_value == replace(replace(replace(value_str, <<"$">>), <<",">>), <<"€">>)
    IN  IF value_str = << >> \/ value_str = <<"$", "0">> THEN Decimal(0, 0)
        ELSE IF replace(clean_value, <<".", "0", "0", "0">>) # clean_value
        THEN float_times_or_zero(replace(clean_value, <<".", "0", "0", "0">>), 3)
        ELSE IF replace(clean_value, <<".", "0", "0">>) # clean_value
        THEN float_times_or_zero(replace(clean_value, <<".", "0", "0">>), 0)
        ELSE IF replace(upper(clean_value), <<"M">>) # upper(clean_value)
        THEN float_times_or_zero(replace(upper(clean_value), <<"M">>), 6)
        ELSE IF replace(upper(clean_value), <<"K">>) # upper(clean_value)
        THEN float_times_or_zero(replace(upper(clean_value), <<"K">>), 3)
        ELSE float_times_or_zero(clean_value, 0)

\* src/AgentenSystem/PlayerAgent.py, Player._parse_value
AS_parse_value(value_str) ==
    LET clean_value_str ==
            replace(replace(replace(replace(value_str, <<"$">>), <<"€">>), <<",">>), <<"£">>)
    IN  IF value_str = << >> \/ value_str = <<"$", "0">> THEN Decimal(0, 0)
        ELSE IF replace(upper(clean_value_str), <<"M">>) # upper(clean_value_str)
        THEN float_times_or_zero(replace(upper(clean_value_str), <<"M">>), 6)
        ELSE IF replace(upper(clean_value_str), <<"K">>) # upper(clean_value_str)
        THEN float_times_or_zero(replace(upper(clean_value_str), <<"K">>), 3)
        ELSE IF replace(clean_value_str, <<".", "0", "0", "0">>) # clean_value_str
        THEN float_times_or_zero(replace(clean_value_str, <<".">>), 0)
        ELSE float_times_or_zero(clean_value_str, 0)

\* the strings parsed: a currency sign or none, a number, an ending or none
ValueStrings ==
    { currency \o number \o ending :
        currency \in { << >>, <<"$">>, <<"€">> },
        number \in { <<"0">>, <<"5">>, <<"5", "0", "0">>, <<"1", ".", "2">>,
                     <<"1", ".", "5", "0", "0">>, <<"2", ",", "5", "0", "0">>, << >> },
        ending \in { << >>, <<".", "0", "0", "0">>, <<".", "0", "0">>,
                     <<"K">>, <<"M">>, <<"k">> } }

InitParse ==
    /\ mode = "parse"
    /\ ds = "mixed"
    /\ cfg = SA_CONFIG
    /\ agents = << >>
    /\ pc = "call"
    /\ round_num = 0
    /\ current_squad = << >>
    /\ proposal = << >>
    /\ pos1 = -1
    /\ pos2 = -1
    /\ club1_vote = "none"
    /\ club2_vote = "none"
    /\ successful_swaps = 0
    /\ exc = "none"
    /\ pool_alias = TRUE
    /\ pools = << << >>, << >> >>
    /\ trade_executed_this_round = FALSE
    /\ trade_log = << >>
    /\ last_vote = NoVote
    /\ calibrations = <<0, 0>>
    /\ result = NoResult
    /\ twin = NoTwin
    /\ progress = NoProgress

\* Player._parse_value(value_str) of one of the two classes
CallParseValue ==
    /\ mode = "parse" /\ pc = "call"
    /\ \E value_str \in ValueStrings, class \in {"PlayerAgent", "AgentenSystem.PlayerAgent"} :
          result' = [op |-> "_parse_value", class |-> class, value_str |-> value_str,
                     exc |-> "none",
                     val |-> IF class = "PlayerAgent" THEN parse_value(value_str)
                             ELSE AS_parse_value(value_str)]
    /\ UNCHANGED << mode, twin, progress, ds, cfg, pc, round_num, agents, current_squad, proposal,
                    pos1, pos2, club1_vote, club2_vote, successful_swaps, exc,
                    pool_alias, pools, trade_executed_this_round, trade_log,
                    last_vote, calibrations >>

SpecParse == InitParse /\ [][CallParseValue]_vars

\* C14: both implementations parse "$0" to 0.0, "$2,500.000" to 2500000.0,
\* "$500K" to 500000.0, "$1.2M" to 1200000.0 and "1.500.000" to 1500000.0
C14_ParsedValues ==
    mode = "parse" /\ result.op = "_parse_value" =>
        /\ result.value_str = <<"$", "0">> => result.val = Decimal(0, 0)
        /\ result.value_str = <<"$", "2", ",", "5", "0", "0", ".", "0", "0", "0">>
              => result.val = Decimal(2500000, 0)
        /\ result.value_str = <<"$", "5", "0", "0", "K">> => result.val = Decimal(500000, 0)
        /\ result.value_str = <<"$", "1", ".", "2", "M">> => result.val = Decimal(1200000, 0)
        /\ result.value_str = <<"1", ".", "5", "0", "0", ".", "0", "0", "0">>
              => result.val = Decimal(1500000, 0)

\* the dotted-thousands string parsed by the class of src/AgentenSystem
C14_Witness ==
    /\ mode = "parse" /\ result.op = "_parse_value"
    /\ result.class = "AgentenSystem.PlayerAgent"
    /\ result.value_str = <<"1", ".", "5", "0", "0", ".", "0", "0", "0">>
    /\ result.val = Decimal(1500000, 0)

\* C15: in warm-up (cur_iter below CALIBRATION_ITERATIONS after the vote's
\* increment) a vote on a proposal that is no strict improvement returns
\* true exactly when the draw is at most MIN_ACCEPTANCE_RATE, whatever the
\* loss and the temperature
C15_WarmupAcceptsAtRate ==
    (/\ mode = "vote" /\ result.op = "vote" /\ last_vote.exc = "none"
     /\ agents[1].cur_iter < cfg.CALIBRATION_ITERATIONS
     /\ last_vote.proposed_utility <= last_vote.current_utility)
    => (last_vote.ret <=> result.draw <= cfg.MIN_ACCEPTANCE_RATE)

\* a warm-up vote that accepted a loss
C15_Witness ==
    /\ mode = "vote" /\ result.op = "vote" /\ last_vote.exc = "none"
    /\ agents[1].cur_iter < cfg.CALIBRATION_ITERATIONS
    /\ last_vote.proposed_utility < last_vote.current_utility
    /\ last_vote.ret

\* C16: a vote with cur_iter >= CALIBRATION_ITERATIONS (after its
\* increment) leaves sum_delta and anz_delta unchanged, whatever its
\* utilities
C16_AccumulatorsOnlyInWarmup ==
    [][(mode = "vote" /\ agents'[1].cur_iter >= cfg.CALIBRATION_ITERATIONS)
        => (/\ agents'[1].sum_delta = agents[1].sum_delta
            /\ agents'[1].anz_delta = agents[1].anz_delta)]_vars

\* warm-up is over and a vote has been cast on a proposal that is no
\* improvement
C16_Witness ==
    /\ mode = "vote" /\ last_vote.exc = "none"
    /\ agents[1].cur_iter > cfg.CALIBRATION_ITERATIONS
    /\ last_vote.proposed_utility <= last_vote.current_utility

\* C17: a vote with cur_iter > CALIBRATION_ITERATIONS first sets the
\* temperature to max(T - delta_t, MIN_TEMPERATURE), delta_t being kept as
\* calibration left it, and the acceptance test of that vote is made at the
\* new temperature
C17_CoolThenDecide ==
    [][(mode = "vote" /\ agents'[1].cur_iter > cfg.CALIBRATION_ITERATIONS)
        => (/\ agents'[1].delta_t = agents[1].delta_t
            /\ agents'[1].t = Max2(agents[1].t - agents[1].delta_t, cfg.MIN_TEMPERATURE)
            /\ last_vote'.exc = "none"
            /\ last_vote'.proposed_utility <= last_vote'.current_utility
                  => (last_vote'.ret <=>
                         (/\ agents'[1].t > 0
                          /\ result'.draw <= MathExpNeg(TDiv(
                                (last_vote'.current_utility - last_vote'.proposed_utility) * SCALE,
                                agents'[1].t)))))]_vars

\* a vote after calibration has cooled the temperature and accepted a loss
\* on a draw above zero
C17_Witness ==
    /\ mode = "vote" /\ result.op = "vote" /\ last_vote.exc = "none"
    /\ agents[1].cur_iter > cfg.CALIBRATION_ITERATIONS
    /\ agents[1].t > cfg.MIN_TEMPERATURE
    /\ last_vote.proposed_utility < last_vote.current_utility
    /\ last_vote.ret /\ result.draw > 0

\* C18: the calibration vote raises no division by zero and leaves T > 0:
\* avg_delta is 1.0 when no delta was counted, T is -avg_delta / ln(rate)
\* when avg_delta > 0 and FALLBACK_TEMPERATURE when avg_delta is 0, and
\* delta_t is T / (MAX_ITERATIONS - CALIBRATION_ITERATIONS)
C18_CalibrationWellDefined ==
    [][(mode = "vote" /\ agents'[1].cur_iter = cfg.CALIBRATION_ITERATIONS)
        => LET count == agents[1].anz_delta
               avg_delta == IF count = 0 THEN SCALE ELSE TDiv(agents[1].sum_delta, count)
               rate == Max2(cfg.MIN_CALIBRATION_RATE,
                            cfg.MIN_ACCEPTANCE_RATE
                              - TDiv((cfg.CALIBRATION_ITERATIONS - count) * SCALE,
                                     cfg.CALIBRATION_ITERATIONS))
           IN  /\ last_vote'.exc = "none"
               /\ agents'[1].t > 0
               /\ avg_delta > 0 =>
                     /\ rate > 0 /\ MathLog(rate) # 0
                     /\ agents'[1].t = TDiv((-avg_delta) * SCALE, MathLog(rate))
               /\ avg_delta = 0 => agents'[1].t = cfg.FALLBACK_TEMPERATURE
               /\ cfg.MAX_ITERATIONS # cfg.CALIBRATION_ITERATIONS
               /\ agents'[1].delta_t =
                     TDiv(agents'[1].t, cfg.MAX_ITERATIONS - cfg.CALIBRATION_ITERATIONS)]_vars

\* a calibration vote under the shipped configuration has set the
\* temperature from the average delta
C18_Witness ==
    /\ mode = "vote" /\ last_vote.exc = "none" /\ last_vote.calibrated
    /\ cfg \in {SA_CONFIG, AS_SA_CONFIG}
    /\ agents[1].avg_delta > 0 /\ agents[1].avg_delta # SCALE
    /\ agents[1].t > 0 /\ agents[1].delta_t > 0

(***************************************************************************)
(* The position proposals of the two mediators, called directly:           *)
(* ClubBasedFootballMediator (src/AgentenSystem/FootballMediator.py) on a  *)
(* pair of squads, FootballMediator (src/FootballMediator.py) on one.      *)
(***************************************************************************)
MaxSquadLen == 3

\* _swap_positions_in_squad, p1 and p2 being the two slots the loop of
\* lines 140-145 ends with
swap_positions_in_squad(squad, p1, p2) ==
    IF Len(squad) <= 1 THEN squad ELSE SwapAt(squad, p1, p2)

\* the exchange made in both squads whenever both have two players
AS_propose_player_swap_both_sides(buyer_size, seller_size, buyer_squad, seller_squad, choice, p1, p2) ==
    << IF buyer_size > 1 /\ p1 < Len(buyer_squad) /\ p2 < Len(buyer_squad)
       THEN swap_positions_in_squad(buyer_squad, p1, p2) ELSE buyer_squad,
       IF seller_size > 1 /\ p1 < Len(seller_squad) /\ p2 < Len(seller_squad)
       THEN swap_positions_in_squad(seller_squad, p1, p2) ELSE seller_squad >>

\* ClubBasedFootballMediator.propose_player_swap, choice being the value of
\* random.choice([True, False])
AS_propose_player_swap(buyer_size, seller_size, buyer_squad, seller_squad, choice, p1, p2) ==
    IF choice /\ buyer_size > 1
    THEN << swap_positions_in_squad(buyer_squad, p1, p2), seller_squad >>
    ELSE IF seller_size > 1
    THEN << buyer_squad, swap_positions_in_squad(seller_squad, p1, p2) >>
    ELSE << buyer_squad, seller_squad >>

\* the outcomes of random.sample and random.shuffle in _shuffle_squad, the
\* number of positions capped by the length; none for a squad the method
\* returns at once
shuffle_squad_draws(squad, percentage) ==
    IF Len(squad) <= 1 THEN { << >> }
    ELSE ShuffleDraws(Len(squad), Min2(num_to_shuffle(Len(squad), percentage), Len(squad)))

\* _shuffle_squad on the draw f
shuffle_squad(squad, f) ==
    IF Len(squad) <= 1 THEN squad ELSE propose_team_shuffle(squad, f).proposed_squad

\* ClubBasedFootballMediator.propose_team_shuffle: choices are the two
\* values of random.choice, f the draws of the two sides
AS_propose_team_shuffle(buyer_size, seller_size, buyer_squad, seller_squad, choices, f) ==
    LET first_buyer == IF buyer_size > 1 THEN choices[1] ELSE FALSE
        first_seller == IF seller_size > 1 THEN choices[2] ELSE FALSE
        shuffle_buyer == first_buyer \/ (~first_seller /\ buyer_size > 1)
        shuffle_seller == first_seller \/ (~first_buyer /\ buyer_size <= 1 /\ seller_size > 1)
    IN  [shuffled |-> << shuffle_buyer, shuffle_seller >>,
         squads |-> << IF shuffle_buyer THEN shuffle_squad(buyer_squad, f[1]) ELSE buyer_squad,
                       IF shuffle_seller THEN shuffle_squad(seller_squad, f[2]) ELSE seller_squad >>]

\* the arrangements of the squad of a pool of up to MaxSquadLen players
Arrangements ==
    UNION { { s \in [1..n -> 0..(n - 1)] : \A a, b \in 1..n : s[a] = s[b] => a = b } :
              n \in 0..MaxSquadLen }

InitMediator ==
    /\ mode = "mediator"
    /\ ds = "mixed"
    /\ cfg = SA_CONFIG
    /\ agents = << >>
    /\ pc = "call"
    /\ round_num = 0
    /\ current_squad = << >>
    /\ proposal = << >>
    /\ pos1 = -1
    /\ pos2 = -1
    /\ club1_vote = "none"
    /\ club2_vote = "none"
    /\ successful_swaps = 0
    /\ exc = "none"
    /\ pool_alias = TRUE
    /\ pools = << << >>, << >> >>
    /\ trade_executed_this_round = FALSE
    /\ trade_log = << >>
    /\ last_vote = NoVote
    /\ calibrations = <<0, 0>>
    /\ result = NoResult
    /\ twin = NoTwin
    /\ progress = NoProgress

\* mediator.propose_player_swap(...) on a mediator built for pools of the
\* sizes of the squads: one squad for FootballMediator, a pair for
\* ClubBasedFootballMediator
CallProposeSwap ==
    /\ mode = "mediator" /\ pc = "call"
    /\ \E class \in {"FootballMediator", "ClubBasedFootballMediator"},
          buyer_squad \in Arrangements, n \in 0..MaxSquadLen, choice \in BOOLEAN,
          p1, p2 \in 0..(MaxSquadLen - 1) :
          LET seller_squad == init_squads(n)
              drawn_in == IF class = "FootballMediator" \/ (choice /\ Len(buyer_squad) > 1)
                          THEN buyer_squad ELSE seller_squad
          IN  /\ p1 # p2
              /\ IF Len(drawn_in) > 1 THEN p1 < Len(drawn_in) /\ p2 < Len(drawn_in)
                 ELSE p1 = 0 /\ p2 = 1
              /\ pos1' = p1 /\ pos2' = p2 /\ pc' = "returned"
              /\ result' = [op |-> "propose_player_swap", class |-> class, exc |-> "none"]
              /\ IF class = "FootballMediator"
                 THEN /\ current_squad' = << buyer_squad >>
                      /\ proposal' = << IF Len(buyer_squad) > 1
                                        THEN propose_player_swap(buyer_squad, p1, p2).proposed_squad
                                        ELSE buyer_squad >>
                 ELSE /\ current_squad' = << buyer_squad, seller_squad >>
                      /\ proposal' = AS_propose_player_swap(Len(buyer_squad), Len(seller_squad),
                                         buyer_squad, seller_squad, choice, p1, p2)
    /\ UNCHANGED << mode, twin, progress, ds, cfg, round_num, agents,
                    club1_vote, club2_vote, successful_swaps, exc,
                    pool_alias, pools, trade_executed_this_round, trade_log,
                    last_vote, calibrations >>

\* FootballMediator.propose_team_shuffle(current_squad, shuffle_percentage):
\* random.sample raises ValueError when asked for more positions than the
\* squad has
CallShuffle ==
    /\ mode = "mediator" /\ pc = "call"
    /\ \E current \in Arrangements, percentage \in {ShufflePercentage, 3 * ShufflePercentage} :
          /\ current_squad' = << current >> /\ pc' = "returned"
          /\ IF num_to_shuffle(Len(current), percentage) > Len(current)
             THEN /\ proposal' = << >>
                  /\ result' = [op |-> "propose_team_shuffle", class |-> "FootballMediator",
                                exc |-> "ValueError", percentage |-> percentage,
                                shuffled |-> << TRUE >>, positions |-> << {} >>]
             ELSE \E f \in ShuffleDraws(Len(current), num_to_shuffle(Len(current), percentage)) :
                  /\ proposal' = << propose_team_shuffle(current, f).proposed_squad >>
                  /\ result' = [op |-> "propose_team_shuffle", class |-> "FootballMediator",
                                exc |-> "none", percentage |-> percentage,
                                shuffled |-> << TRUE >>, positions |-> << DOMAIN f >>]
    /\ UNCHANGED << mode, twin, progress, ds, cfg, round_num, agents, pos1, pos2,
                    club1_vote, club2_vote, successful_swaps, exc,
                    pool_alias, pools, trade_executed_this_round, trade_log,
                    last_vote, calibrations >>

\* ClubBasedFootballMediator.propose_team_shuffle(buyer_squad, seller_squad,
\* shuffle_percentage)
CallClubShuffle ==
    /\ mode = "mediator" /\ pc = "call"
    /\ \E buyer_squad \in Arrangements, n \in 0..MaxSquadLen,
          percentage \in {ShufflePercentage, 3 * ShufflePercentage},
          choice1, choice2 \in BOOLEAN :
          \E f1 \in shuffle_squad_draws(buyer_squad, percentage),
             f2 \in shuffle_squad_draws(init_squads(n), percentage) :
             LET out == AS_propose_team_shuffle(Len(buyer_squad), n, buyer_squad,
                            init_squads(n), << choice1, choice2 >>, << f1, f2 >>)
             IN  /\ current_squad' = << buyer_squad, init_squads(n) >> /\ pc' = "returned"
                 /\ proposal' = out.squads
                 /\ result' = [op |-> "propose_team_shuffle",
                               class |-> "ClubBasedFootballMediator",
                               exc |-> "none", percentage |-> percentage,
                               shuffled |-> out.shuffled,
                               positions |-> << IF out.shuffled[1] THEN DOMAIN f1 ELSE {},
                                                IF out.shuffled[2] THEN DOMAIN f2 ELSE {} >>]
    /\ UNCHANGED << mode, twin, progress, ds, cfg, round_num, agents, pos1, pos2,
                    club1_vote, club2_vote, successful_swaps, exc,
                    pool_alias, pools, trade_executed_this_round, trade_log,
                    last_vote, calibrations >>

NextMediator == CallProposeSwap \/ CallShuffle \/ CallClubShuffle

SpecMediator == InitMediator /\ [][NextMediator]_vars

\* the slots at which the squad returned differs from the squad passed
Differing(k) == { i \in DOMAIN current_squad[k] : proposal[k][i] # current_squad[k][i] }

\* C19: propose_player_swap returns squads of which at most one differs
\* from the one passed; a squad that differs does so in exactly two slots,
\* whose contents are exchanged; a squad of at most one player comes back
\* as it was
C19_SwapChangesOneSide ==
    mode = "mediator" /\ result.op = "propose_player_swap" =>
        /\ result.exc = "none"
        /\ DOMAIN proposal = DOMAIN current_squad
        /\ Cardinality({ k \in DOMAIN current_squad : proposal[k] # current_squad[k] }) <= 1
        /\ \A k \in DOMAIN current_squad :
              /\ DOMAIN proposal[k] = DOMAIN current_squad[k]
              /\ Len(current_squad[k]) <= 1 => proposal[k] = current_squad[k]
              /\ proposal[k] # current_squad[k] =>
                    /\ Differing(k) = { pos1 + 1, pos2 + 1 } /\ pos1 # pos2
                    /\ proposal[k][pos1 + 1] = current_squad[k][pos2 + 1]
                    /\ proposal[k][pos2 + 1] = current_squad[k][pos1 + 1]

\* the seller's squad of a pair has had two slots exchanged
C19_Witness ==
    /\ mode = "mediator" /\ result.op = "propose_player_swap"
    /\ result.class = "ClubBasedFootballMediator"
    /\ Len(current_squad[1]) > 1
    /\ proposal[1] = current_squad[1]
    /\ Cardinality(Differing(2)) = 2

\* C20: propose_team_shuffle returns, for each side, a squad with the
\* entries of the one passed, each as often, that differs from it at most
\* at the min(len, max(1, floor(len * percentage))) slots selected; and
\* when a side has more than one player at least one side goes through the
\* shuffle
C20_ShuffleKeepsEntries ==
    mode = "mediator" /\ result.op = "propose_team_shuffle" =>
        /\ result.exc = "none"
        /\ DOMAIN proposal = DOMAIN current_squad
        /\ \A k \in DOMAIN current_squad :
              /\ DOMAIN proposal[k] = DOMAIN current_squad[k]
              /\ \A v \in 0..MaxSquadLen :
                    Cardinality({ i \in DOMAIN proposal[k] : proposal[k][i] = v })
                      = Cardinality({ i \in DOMAIN current_squad[k] : current_squad[k][i] = v })
              /\ Differing(k) \subseteq result.positions[k]
              /\ Cardinality(result.positions[k])
                    <= Min2(Len(current_squad[k]),
                            Max2(1, (Len(current_squad[k]) * result.percentage) \div SCALE))
        /\ (\E k \in DOMAIN current_squad : Len(current_squad[k]) > 1)
              => \E k \in DOMAIN current_squad : result.shuffled[k]

\* both squads of a pair have been shuffled, at all their slots
C20_Witness ==
    /\ mode = "mediator" /\ result.op = "propose_team_shuffle"
    /\ result.class = "ClubBasedFootballMediator" /\ result.exc = "none"
    /\ result.shuffled = << TRUE, TRUE >>
    /\ Cardinality(Differing(1)) = MaxSquadLen
    /\ Cardinality(Differing(2)) > 1

(***************************************************************************)
(* Conservation of players in the loop of run_club_negotiation.            *)
(***************************************************************************)
PlayerSet(list) == { list[i] : i \in DOMAIN list }

NoSharedPlayer(a) == PlayerSet(a[1].players) \cap PlayerSet(a[2].players) = {}

BUYER_CONFIG_CLUB_NAME == "None"
SELLER_CONFIG_CLUB_NAME == "None"
SELLER_CLUB_NAME == "Liverpool"

\* attribute_weights_override: << >> for None, << d >> for the dictionary d
Overrides ==
    { << >>,
      << [finishing |-> 2000] >>,
      << [ball_control |-> 3000, dribbling |-> 1500] >>,
      << BUYER_CONFIG.ATTRIBUTE_WEIGHTS >> }

ClubNames == {"None", "A", "B"}

NewObject(cls) ==
    [kind |-> cls, assigned |-> {}, club_name |-> "None", players |-> << >>,
     attribute_weights_dict |-> << >>, attribute_weights |-> << >>,
     position_weights |-> << >>,
     t |-> 0, delta_t |-> 0, mind_ac_rate |-> 0, max_iter |-> 0, cur_iter |-> 0,
     max_sim |-> 0, sum_delta |-> 0, anz_delta |-> 0, avg_delta |-> 0]

InitConstruct ==
    /\ mode = "construct"
    /\ ds = "clubmixed"
    /\ cfg \in Configurations(AS_SA_CONFIG)
    /\ \E cls \in {"BuyerClubAgent", "SellerClubAgent"}, name \in ClubNames,
          override \in Overrides :
          /\ cls = "BuyerClubAgent" => override = << >>
          /\ agents = << NewObject(cls) >>
          /\ result = [op |-> "construct", club_name |-> name,
                       attribute_weights_override |-> override]
    /\ pc = "resolve_name"
    /\ round_num = 0
    /\ current_squad = << >>
    /\ proposal = << >>
    /\ pos1 = -1
    /\ pos2 = -1
    /\ club1_vote = "none"
    /\ club2_vote = "none"
    /\ successful_swaps = 0
    /\ exc = "none"
    /\ pool_alias = TRUE
    /\ pools = << << >>, << >> >>
    /\ trade_executed_this_round = FALSE
    /\ trade_log = << >>
    /\ last_vote = NoVote
    /\ calibrations = <<0, 0>>
    /\ twin = NoTwin
    /\ progress = NoProgress

ConstructStep(self, next_pc) ==
    /\ agents' = << self >>
    /\ pc' = next_pc
    /\ UNCHANGED << mode, ds, cfg, round_num, current_squad, proposal, pos1, pos2,
                    club1_vote, club2_vote, successful_swaps, exc, pool_alias, pools,
                    trade_executed_this_round, trade_log, last_vote, calibrations,
                    result, twin, progress >>

\* BuyerClubAgent.__init__ lines 16-17, SellerClubAgent.__init__ lines 37-41:
\* the name handed to the base constructor (kept in club_name until then)
ResolveName ==
    /\ mode = "construct" /\ pc = "resolve_name"
    /\ LET self == agents[1]
           resolved ==
              IF result.club_name # "None" THEN result.club_name
              ELSE IF self.kind = "BuyerClubAgent" THEN BUYER_CONFIG_CLUB_NAME
              ELSE IF SELLER_CONFIG_CLUB_NAME # "None" THEN SELLER_CONFIG_CLUB_NAME
              ELSE SELLER_CLUB_NAME
       IN  ConstructStep([self EXCEPT !.club_name = resolved], "base_fields")

\* FootballAgent.__init__ lines 186-187
BaseFields ==
    /\ mode = "construct" /\ pc = "base_fields"
    /\ LET self == agents[1]
       IN  ConstructStep([self EXCEPT !.players = << >>,
                                      !.assigned = @ \cup {"club_name", "players"}],
                         "base_attribute_weights")

\* _init_attribute_weights of the object's class: the buyer's reads
\* BUYER_CONFIG, the seller's reads self.attribute_weights_dict
init_attribute_weights(self) ==
    IF self.kind = "BuyerClubAgent"
    THEN Val(WeightsFromDict(BUYER_CONFIG.ATTRIBUTE_WEIGHTS))
    ELSE IF "attribute_weights_dict" \notin self.assigned
    THEN [val |-> << >>, exc |-> "AttributeError"]
    ELSE Val(WeightsFromDict(self.attribute_weights_dict))

\* FootballAgent.__init__ line 192
BaseAttributeWeights ==
    /\ mode = "construct" /\ pc = "base_attribute_weights"
    /\ LET self == agents[1]
           weights == init_attribute_weights(self)
       IN  IF weights.exc # "none"
           THEN /\ exc' = weights.exc
                /\ pc' = "raised"
                /\ UNCHANGED << mode, ds, cfg, agents, round_num, current_squad,
                                proposal, pos1, pos2, club1_vote, club2_vote,
                                successful_swaps, pool_alias, pools,
                                trade_executed_this_round, trade_log, last_vote,
                                calibrations, result, twin, progress >>
           ELSE ConstructStep([self EXCEPT !.attribute_weights = weights.val,
                                           !.assigned = @ \cup {"attribute_weights"}],
                              "base_position_weights")

\* FootballAgent.__init__ lines 193-205
BaseRest ==
    /\ mode = "construct" /\ pc = "base_position_weights"
    /\ LET self == agents[1]
       IN  ConstructStep(
             [self EXCEPT !.position_weights =
                              IF self.kind = "BuyerClubAgent"
                              THEN BUYER_CONFIG.POSITION_WEIGHTS
                              ELSE SELLER_CONFIG.POSITION_WEIGHTS,
                          !.t = 50 * SCALE, !.delta_t = 0,
                          !.mind_ac_rate = (8 * SCALE) \div 10,
                          !.max_iter = 10000, !.cur_iter = 0, !.max_sim = 1000,
                          !.sum_delta = 0, !.anz_delta = 0, !.avg_delta = 0,
                          !.assigned = @ \cup {"position_weights", "t", "delta_t",
                              "mind_ac_rate", "max_iter", "cur_iter", "max_sim",
                              "sum_delta", "anz_delta", "avg_delta"}],
             "subclass")

\* after super().__init__: BuyerClubAgent.__init__ lines 20-23,
\* SellerClubAgent.__init__ lines 46-62
SubclassRest ==
    /\ mode = "construct" /\ pc = "subclass"
    /\ LET self == agents[1]
           override == result.attribute_weights_override
           with_dict ==
              IF self.kind = "BuyerClubAgent" THEN self
              ELSE [self EXCEPT !.attribute_weights_dict =
                                    IF override # << >> THEN override[1]
                                    ELSE SELLER_CONFIG.ATTRIBUTE_WEIGHTS,
                                !.assigned = @ \cup {"attribute_weights_dict"}]
           weights == init_attribute_weights(with_dict)
       IN  ConstructStep(
             [with_dict EXCEPT !.attribute_weights = weights.val,
                               !.t = cfg.INITIAL_TEMPERATURE,
                               !.mind_ac_rate = cfg.MIN_ACCEPTANCE_RATE,
                               !.max_iter = cfg.MAX_ITERATIONS,
                               !.max_sim = cfg.CALIBRATION_ITERATIONS],
             "constructed")

NextConstruct ==
    \/ ResolveName
    \/ BaseFields
    \/ BaseAttributeWeights
    \/ BaseRest
    \/ SubclassRest

SpecConstruct == InitConstruct /\ [][NextConstruct]_vars

\* C22: no construction of a SellerClubAgent raises AttributeError at the
\* read of attribute_weights_dict, and the constructed seller's
\* attribute_weights is the max-normalized list of the override dictionary
\* when one was given and of SELLER_CONFIG otherwise.
C22_SellerConstructionCompletes ==
    (mode = "construct" /\ agents[1].kind = "SellerClubAgent") =>
        /\ ~(pc = "raised" /\ exc = "AttributeError")
        /\ pc = "constructed" =>
              agents[1].attribute_weights =
                 WeightsFromDict(IF result.attribute_weights_override # << >>
                                 THEN result.attribute_weights_override[1]
                                 ELSE SELLER_CONFIG.ATTRIBUTE_WEIGHTS)

\* the base constructor of a seller built with an override dictionary has
\* read attribute_weights_dict
C22_Witness ==
    /\ mode = "construct" /\ agents[1].kind = "SellerClubAgent"
    /\ result.attribute_weights_override # << >>
    /\ pc \in {"raised", "base_position_weights"}

(***************************************************************************)
(* Two runs of one agent's votes that differ only in the temperature the   *)
(* agent starts with: agents[1] starts at INITIAL_TEMPERATURE, agents[2]    *)
(* at a value of the "Start-Temperatur" slider (src/app.py lines 409-416,   *)
(* assigned at lines 540-541).  Every vote is cast in both runs with the    *)
(* same utilities and the same draw, and goes on beyond MAX_ITERATIONS.     *)
(***************************************************************************)
VotesBeyond == 2

StartTemperatures == {10 * SCALE, 200 * SCALE}

\* the utilities of the squads voted on: equal, close and far apart
AnnealUtilities == {0, 5, 250 * SCALE}

AnnealConfigurations(base) == {base, [base EXCEPT !.CALIBRATION_ITERATIONS = 1]}

InitAnneal ==
    /\ mode = "anneal"
    /\ ds = "mixed"
    /\ \E kind \in {"ClubAgent", "BuyerClubAgent", "SellerClubAgent"},
          temperature \in StartTemperatures :
          /\ cfg \in AnnealConfigurations(IF kind = "ClubAgent" THEN SA_CONFIG
                                         ELSE AS_SA_CONFIG)
          /\ agents = << AgentOfClass(kind, "A", cfg),
                         [AgentOfClass(kind, "A", cfg) EXCEPT !.t = temperature] >>
    /\ pc = "call"
    /\ round_num = 0
    /\ current_squad = << >>
    /\ proposal = << >>
    /\ pos1 = -1
    /\ pos2 = -1
    /\ club1_vote = "none"
    /\ club2_vote = "none"
    /\ successful_swaps = 0
    /\ exc = "none"
    /\ pool_alias = TRUE
    /\ pools = << << >>, << >> >>
    /\ trade_executed_this_round = FALSE
    /\ trade_log = << >>
    /\ last_vote = NoVote
    /\ calibrations = <<0, 0>>
    /\ result = [op |-> "none", rets |-> << FALSE, FALSE >>,
                 excs |-> << "none", "none" >>]
    /\ twin = NoTwin
    /\ progress = NoProgress

\* one vote, cast in both runs
AnnealVote ==
    /\ mode = "anneal" /\ pc = "call"
    /\ agents[1].cur_iter < agents[1].max_iter + VotesBeyond
    /\ \E current_utility, proposed_utility \in AnnealUtilities, r \in Draws :
          /\ agents' = << Anneal(agents[1], cfg, current_utility, proposed_utility, r).agent,
                          Anneal(agents[2], cfg, current_utility, proposed_utility, r).agent >>
          /\ result' = [op |-> "vote",
                        rets |-> << Anneal(agents[1], cfg, current_utility, proposed_utility, r).ret,
                                    Anneal(agents[2], cfg, current_utility, proposed_utility, r).ret >>,
                        excs |-> << Anneal(agents[1], cfg, current_utility, proposed_utility, r).exc,
                                    Anneal(agents[2], cfg, current_utility, proposed_utility, r).exc >>]
          /\ last_vote' = Seen(1, Anneal(agents[1], cfg, current_utility, proposed_utility, r))
          /\ calibrations' =
                [i \in 1..2 |-> calibrations[i] +
                    (IF Anneal(agents[i], cfg, current_utility, proposed_utility, r).calibrated
                     THEN 1 ELSE 0)]
          /\ exc' = Anneal(agents[1], cfg, current_utility, proposed_utility, r).exc
          /\ pc' = IF Anneal(agents[1], cfg, current_utility, proposed_utility, r).exc = "none"
                      /\ Anneal(agents[2], cfg, current_utility, proposed_utility, r).exc = "none"
                   THEN "call" ELSE "raised"
    /\ UNCHANGED << mode, ds, cfg, round_num, current_squad, proposal, pos1, pos2,
                    club1_vote, club2_vote, successful_swaps, pool_alias, pools,
                    trade_executed_this_round, trade_log, twin, progress >>

SpecAnneal == InitAnneal /\ [][AnnealVote]_vars

C24_BothVoteEveryRound ==
    mode = "index" =>
        /\ pc # "raised"
        /\ pc \in {"propose", "while", "vote1", "done"} =>
              /\ agents[1].cur_iter = round_num
              /\ agents[2].cur_iter = round_num
        /\ pc = "vote2" =>
              /\ agents[1].cur_iter = round_num + 1
              /\ agents[2].cur_iter = round_num
        /\ pc = "decide" =>
              /\ agents[1].cur_iter = round_num + 1
              /\ agents[2].cur_iter = round_num + 1
        /\ (pc \in {"vote2", "decide"} /\ last_vote.calibrated) =>
              round_num = cfg.CALIBRATION_ITERATIONS - 1
        /\ \A i \in 1..2 :
              calibrations[i] = 1 <=> agents[i].cur_iter >= cfg.CALIBRATION_ITERATIONS

\* the second agent has cast its calibration vote in a round in which the
\* first agent had rejected the proposal
C24_Witness ==
    /\ mode = "index" /\ pc = "decide"
    /\ club1_vote = "False"
    /\ last_vote.who = 2 /\ last_vote.calibrated
    /\ calibrations = <<1, 1>>

\* C25: once an agent has cast its calibration vote, no later vote leaves
\* it with a higher temperature than it had before that vote.
C25_TemperatureNeverIncreases ==
    [][ \A i \in 1..2 :
          (mode \in {"index", "club"} /\ agents[i].cur_iter >= agents[i].max_sim)
             => agents'[i].t <= agents[i].t ]_vars

\* an agent has cast a vote after its calibration vote
C25_Witness ==
    /\ mode = "index"
    /\ \E i \in 1..2 : calibrations[i] = 1 /\ agents[i].cur_iter > agents[i].max_sim

MaxCalls == 3

\* TransferMarket(clubs, min_squad_size = 1)
min_squad_size == 1

MarketClubNames == {"A", "B", "C"}

InClubs(clubs, name) == \E i \in DOMAIN clubs : clubs[i].club_name = name

ClubNamed(clubs, name) == CHOOSE i \in DOMAIN clubs : clubs[i].club_name = name

\* list(range(len(players)))
SquadRange(players) == [i \in 1..Len(players) |-> i - 1]

\* players.index(x): the first position of x, from 1; x is in the list
IndexIn(list, x) == CHOOSE i \in DOMAIN list : list[i] = x /\ \A j \in 1..(i - 1) : list[j] # x

\* player1.club = club2_name; player2.club = club1_name
ReassignClubs(data, player1, player2, club1_name, club2_name) ==
    CHOOSE n \in DOMAIN MarketClubFields :
        MarketClubFields[n] =
           [[MarketClubFields[data] EXCEPT ![player1] = club2_name]
               EXCEPT ![player2] = club1_name]

\* lines 102-103 decided on the loss the transfer brings
ClubAccepts_vote_on_loss(club, evaluated_players, data, cfg_, r) ==
    IF ClubAgent_evaluate_squad([club EXCEPT !.players = evaluated_players], data,
                                SquadRange(club.players))
          >= ClubAgent_evaluate_squad(club, data, SquadRange(club.players))
    THEN Returned(club, TRUE)
    ELSE Anneal(club, cfg_,
                ClubAgent_evaluate_squad(club, data, SquadRange(club.players)),
                ClubAgent_evaluate_squad([club EXCEPT !.players = evaluated_players], data,
                                         SquadRange(club.players)), r)

\* lines 102-103: new_utility >= old_utility or club.vote(current, current);
\* evaluated_players is the list the club held while new_utility was taken
ClubAccepts(club, evaluated_players, data, cfg_, r) ==
    IF ClubAgent_evaluate_squad([club EXCEPT !.players = evaluated_players], data,
                                SquadRange(club.players))
          >= ClubAgent_evaluate_squad(club, data, SquadRange(club.players))
    THEN Returned(club, TRUE)
    ELSE ClubAgent_vote(club, cfg_, data, SquadRange(club.players),
                        SquadRange(club.players), r)

\* a commit that assigns the new list to the first club only
MarketCommit_first_club_only(clubs, i1, i2, new1, new2) ==
    [clubs EXCEPT ![i1].players = new1]

\* lines 107-108: club1.players = club1_players_new; club2.players = ...
MarketCommit(clubs, i1, i2, new1, new2) ==
    [[clubs EXCEPT ![i1].players = new1] EXCEPT ![i2].players = new2]

\* lines 115-129: the two records appended
HistoryAfter(history, data, club1_name, club2_name, player1, player2) ==
    history \o
    << [from_club |-> club1_name, to_club |-> club2_name,
        player_out |-> DataSets[data][player1].name,
        player_in |-> DataSets[data][player2].name, timestamp |-> Len(history)],
       [from_club |-> club2_name, to_club |-> club1_name,
        player_out |-> DataSets[data][player2].name,
        player_in |-> DataSets[data][player1].name, timestamp |-> Len(history) + 1] >>

NotExecuted(clubs, data, history) ==
    [clubs |-> clubs, data |-> data, transfer_history |-> history, ret |-> FALSE,
     exc |-> "none", found |-> FALSE, accepts |-> << FALSE, FALSE >>,
     loses |-> << FALSE, FALSE >>]

\* lines 71-133, both players found: i1 and i2 are the clubs, new1 and new2
\* the simulated lists, a1 and a2 the outcomes of lines 102 and 103
ExecuteFound(clubs, data, history, club1_name, club2_name, player1, player2, i1, i2, new1, new2, a1, a2) ==
    [clubs |-> IF a1.exc = "none" /\ a2.exc = "none" /\ a1.ret /\ a2.ret
               THEN MarketCommit([[clubs EXCEPT ![i1] = a1.agent]
                                     EXCEPT ![i2] = a2.agent], i1, i2, new1, new2)
               ELSE IF a1.exc = "none"
                    THEN [[clubs EXCEPT ![i1] = a1.agent] EXCEPT ![i2] = a2.agent]
                    ELSE [clubs EXCEPT ![i1] = a1.agent],
     data |-> IF a1.exc = "none" /\ a2.exc = "none" /\ a1.ret /\ a2.ret
              THEN ReassignClubs(data, player1, player2, club1_name, club2_name)
              ELSE data,
     transfer_history |->
              IF a1.exc = "none" /\ a2.exc = "none" /\ a1.ret /\ a2.ret
              THEN HistoryAfter(history, data, club1_name, club2_name, player1, player2)
              ELSE history,
     ret |-> a1.exc = "none" /\ a2.exc = "none" /\ a1.ret /\ a2.ret,
     exc |-> IF a1.exc # "none" THEN a1.exc ELSE a2.exc,
     found |-> TRUE,
     accepts |-> << a1.ret, a2.ret >>,
     loses |-> << a1.agent.cur_iter > clubs[i1].cur_iter,
                  a2.agent.cur_iter >
                     (IF i1 = i2 THEN a1.agent.cur_iter ELSE clubs[i2].cur_iter) >>]

\* lines 71-103 for clubs i1 and i2 that hold the two players
ExecuteVotes(clubs, data, history, club1_name, club2_name, player1, player2, i1, i2, new1, new2, cfg_, r1, r2) ==
    ExecuteFound(clubs, data, history, club1_name, club2_name, player1, player2,
                 i1, i2, new1, new2,
                 ClubAccepts(clubs[i1], IF i1 = i2 THEN new2 ELSE new1, data, cfg_, r1),
                 ClubAccepts(IF i1 = i2
                             THEN ClubAccepts(clubs[i1], new2, data, cfg_, r1).agent
                             ELSE clubs[i2], new2, data, cfg_, r2))

\* TransferMarket.execute_transfer
execute_transfer(clubs, data, history, club1_name, club2_name, player1, player2, cfg_, r1, r2) ==
    IF ~InClubs(clubs, club1_name) \/ ~InClubs(clubs, club2_name)
    THEN NotExecuted(clubs, data, history)
    ELSE IF \/ ~InList(clubs[ClubNamed(clubs, club1_name)].players, player1)
            \/ ~InList(clubs[ClubNamed(clubs, club2_name)].players, player2)
    THEN NotExecuted(clubs, data, history)
    ELSE ExecuteVotes(clubs, data, history, club1_name, club2_name, player1, player2,
            ClubNamed(clubs, club1_name), ClubNamed(clubs, club2_name),
            [clubs[ClubNamed(clubs, club1_name)].players
                EXCEPT ![IndexIn(clubs[ClubNamed(clubs, club1_name)].players, player1)] = player2],
            [clubs[ClubNamed(clubs, club2_name)].players
                EXCEPT ![IndexIn(clubs[ClubNamed(clubs, club2_name)].players, player2)] = player1],
            cfg_, r1, r2)

NoProposal == [club1_name |-> "None", club2_name |-> "None", player1 |-> 0, player2 |-> 0]

InitMarket ==
    /\ mode = "market"
    /\ ds = "market_AABB"
    /\ cfg \in AnnealConfigurations(SA_CONFIG)
    /\ agents = << set_players(NewClubAgent("A", "balanced", << >>, cfg), FirstClubIds),
                   set_players(NewClubAgent("B", "offensive", << >>, cfg), SecondClubIds),
                   set_players(NewClubAgent("C", "balanced", << >>, cfg), << >>) >>
    /\ pc = "idle"
    /\ round_num = 0
    /\ current_squad = << >>
    /\ proposal = NoProposal
    /\ pos1 = -1
    /\ pos2 = -1
    /\ club1_vote = "none"
    /\ club2_vote = "none"
    /\ successful_swaps = 0
    /\ exc = "none"
    /\ pool_alias = TRUE
    /\ pools = << << >>, << >> >>
    /\ trade_executed_this_round = FALSE
    /\ trade_log = << >>
    /\ last_vote = NoVote
    /\ calibrations = <<0, 0>>
    /\ result = [op |-> "none", ret |-> FALSE, found |-> FALSE,
                 accepts |-> << FALSE, FALSE >>, loses |-> << FALSE, FALSE >>]
    /\ twin = NoTwin
    /\ progress = NoProgress

\* propose_transfer(club1_name, club2_name), lines 23-47, for two clubs as
\* simulate_transfer_window chooses them (lines 218-220): None, or one
\* player of each club
ProposeTransfer ==
    /\ mode = "market" /\ pc = "idle"
    /\ round_num < MaxCalls
    /\ \E club1_name \in MarketClubNames, club2_name \in MarketClubNames :
          /\ club2_name # club1_name
          /\ IF ~InClubs(agents, club1_name) \/ ~InClubs(agents, club2_name)
             THEN proposal' = NoProposal
             ELSE IF \/ Len(agents[ClubNamed(agents, club1_name)].players) <= min_squad_size
                     \/ Len(agents[ClubNamed(agents, club2_name)].players) <= min_squad_size
             THEN proposal' = NoProposal
             ELSE \E player1_idx \in DOMAIN agents[ClubNamed(agents, club1_name)].players,
                     player2_idx \in DOMAIN agents[ClubNamed(agents, club2_name)].players :
                     proposal' =
                        [club1_name |-> club1_name, club2_name |-> club2_name,
                         player1 |-> agents[ClubNamed(agents, club1_name)].players[player1_idx],
                         player2 |-> agents[ClubNamed(agents, club2_name)].players[player2_idx]]
    /\ UNCHANGED << mode, ds, cfg, pc, round_num, agents, current_squad, pos1, pos2,
                    club1_vote, club2_vote, successful_swaps, exc, pool_alias, pools,
                    trade_executed_this_round, trade_log, last_vote, calibrations,
                    result, twin, progress >>

\* execute_transfer on the clubs and players of the proposal last returned,
\* which an earlier call may have executed already
ExecuteTransfer ==
    /\ mode = "market" /\ pc = "idle"
    /\ round_num < MaxCalls
    /\ proposal # NoProposal
    /\ \E r1, r2 \in Draws :
          \E out \in { execute_transfer(agents, ds, trade_log, proposal.club1_name,
                                        proposal.club2_name, proposal.player1,
                                        proposal.player2, cfg, r1, r2) } :
             /\ agents' = out.clubs
             /\ ds' = out.data
             /\ trade_log' = out.transfer_history
             /\ exc' = out.exc
             /\ result' = [op |-> "execute_transfer", ret |-> out.ret, found |-> out.found,
                           accepts |-> out.accepts, loses |-> out.loses]
    /\ pc' = IF exc' = "none" THEN "idle" ELSE "raised"
    /\ round_num' = round_num + 1
    /\ UNCHANGED << mode, cfg, current_squad, proposal, pos1, pos2, club1_vote, club2_vote,
                    successful_swaps, pool_alias, pools, trade_executed_this_round,
                    last_vote, calibrations, twin, progress >>

NextMarket == ProposeTransfer \/ ExecuteTransfer

SpecMarket == InitMarket /\ [][NextMarket]_vars

C29_MarketConservesSquads ==
    /\ [](mode = "market" =>
            \A i, j \in DOMAIN agents :
                i # j => PlayerSet(agents[i].players) \cap PlayerSet(agents[j].players) = {})
    /\ [][ mode = "market" =>
            /\ \A i \in DOMAIN agents : Len(agents'[i].players) = Len(agents[i].players)
            /\ (round_num' = round_num + 1 /\ exc' = "none" /\ ~result'.ret) =>
                  /\ \A i \in DOMAIN agents : agents'[i].players = agents[i].players
                  /\ ds' = ds
                  /\ trade_log' = trade_log
            /\ (round_num' = round_num + 1 /\ result'.ret) =>
                  /\ Len(trade_log') = Len(trade_log) + 2
                  /\ SubSeq(trade_log', 1, Len(trade_log)) = trade_log
            /\ round_num' = round_num =>
                  /\ \A i \in DOMAIN agents : agents'[i].players = agents[i].players
                  /\ ds' = ds
                  /\ trade_log' = trade_log ]_vars

\* a call found both players, took the utilities of the simulated lists,
\* had both clubs vote and returned false
C29_Witness ==
    /\ mode = "market" /\ result.op = "execute_transfer"
    /\ result.found /\ ~result.ret
    /\ result.loses = << TRUE, TRUE >>

(***************************************************************************)
(* TransferTracker (src/TransferTracker.py) in the loop of src/app.py.     *)
(* result is the tracker object; current_squad and proposal are the        *)
(* loop's.  Whether the two agents accept a proposal is left open: in the  *)
(* warm-up rounds each of them accepts any proposal on a random draw.      *)
(***************************************************************************)
MaxTrackedRounds == 3

\* the share of the squad a shuffle redraws in this loop: with squads of
\* two players all four slots, which stands for the 30 % of the slots of
\* two full squads
TrackedShufflePercentage == 1000

SetOf(list) == { list[i] : i \in DOMAIN list }

\* TransferTracker.__init__ followed by initialize_squads
initialize_squads(initial_squad, squad_size) ==
    [op |-> "tracker",
     initial_club1_players |-> SetOf(Prefix(initial_squad, squad_size)),
     initial_club2_players |-> SetOf(Suffix(initial_squad, squad_size)),
     current_club1_players |-> SetOf(Prefix(initial_squad, squad_size)),
     current_club2_players |-> SetOf(Suffix(initial_squad, squad_size)),
     transfer_history |-> << >>,
     transfer_count |-> 0]

\* lines 88-122: the record appended and the four set updates for the pair
\* (player_out_idx, player_in_idx)
TrackPair(tracker, player_out_idx, player_in_idx, round) ==
    [tracker EXCEPT
        !.transfer_history = Append(@,
            [round |-> round, transfer_num |-> tracker.transfer_count + 1,
             from_club |-> "A", to_club |-> "B",
             player_out |-> [idx |-> player_out_idx,
                             name |-> DataMixed[player_out_idx + 1].name],
             player_in |-> [idx |-> player_in_idx,
                            name |-> DataMixed[player_in_idx + 1].name]]),
        !.transfer_count = @ + 1,
        !.current_club1_players = (@ \ {player_out_idx}) \cup {player_in_idx},
        !.current_club2_players = (@ \ {player_in_idx}) \cup {player_out_idx}]

\* track_transfer: the tracker objects the call can leave; the first pair
\* of the two loops over the sets left_club1 and joined_club1 is tracked and
\* the call returns, and the order in which a set is iterated is not fixed
track_transfer(tracker, old_squad, new_squad, squad_size, round) ==
    LET left_club1 == SetOf(Prefix(old_squad, squad_size)) \ SetOf(Prefix(new_squad, squad_size))
        joined_club1 == SetOf(Prefix(new_squad, squad_size)) \ SetOf(Prefix(old_squad, squad_size))
    IN  IF left_club1 # {} /\ joined_club1 # {}
        THEN { TrackPair(tracker, player_out_idx, player_in_idx, round) :
                  player_out_idx \in left_club1, player_in_idx \in joined_club1 }
        ELSE { tracker }

InitTracker ==
    /\ mode = "tracker"
    /\ ds = "mixed"
    /\ cfg = SA_CONFIG
    /\ agents = << >>
    /\ pc = "propose"
    /\ round_num = 0
    /\ current_squad = init_squads(Len(DataMixed))
    /\ proposal = << >>
    /\ pos1 = -1
    /\ pos2 = -1
    /\ club1_vote = "none"
    /\ club2_vote = "none"
    /\ successful_swaps = 0
    /\ exc = "none"
    /\ pool_alias = TRUE
    /\ pools = << << >>, << >> >>
    /\ trade_executed_this_round = FALSE
    /\ trade_log = << >>
    /\ last_vote = NoVote
    /\ calibrations = <<0, 0>>
    /\ result = initialize_squads(init_squads(Len(DataMixed)), squad1_size)
    /\ twin = NoTwin
    /\ progress = NoProgress

\* src/app.py lines 611-655 for the proposal new_squad: both votes, and on
\* two acceptances the counter, track_transfer and current_squad = proposal
TrackedDecision(new_squad) ==
    /\ proposal' = new_squad
    /\ \E vote1, vote2 \in BOOLEAN :
          /\ club1_vote' = Str(vote1)
          /\ club2_vote' = Str(vote2)
          /\ IF vote1 /\ vote2
             THEN /\ successful_swaps' = successful_swaps + 1
                  /\ result' \in track_transfer(result, current_squad, new_squad,
                                                squad1_size, round_num)
                  /\ current_squad' = new_squad
             ELSE UNCHANGED << successful_swaps, result, current_squad >>
    /\ round_num' = round_num + 1
    /\ UNCHANGED << mode, ds, cfg, agents, pc, pos1, pos2, exc, pool_alias, pools,
                    trade_executed_this_round, trade_log, last_vote, calibrations,
                    twin, progress >>

\* a round whose proposal is mediator.propose_player_swap(current_squad)
TrackedSwapRound ==
    /\ mode = "tracker" /\ pc = "propose" /\ round_num < MaxTrackedRounds
    /\ \E p1, p2 \in 0..(Len(current_squad) - 1) :
          /\ p1 # p2
          /\ TrackedDecision(propose_player_swap(current_squad, p1, p2).proposed_squad)

\* a round whose proposal is mediator.propose_team_shuffle(current_squad, ...),
\* which the loop asks for in rounds after the first (lines 603-607)
TrackedShuffleRound ==
    /\ mode = "tracker" /\ pc = "propose" /\ round_num < MaxTrackedRounds
    /\ round_num > 0
    /\ \E f \in ShuffleDraws(Len(current_squad),
                             num_to_shuffle(Len(current_squad), TrackedShufflePercentage)) :
          TrackedDecision(propose_team_shuffle(current_squad, f).proposed_squad)

NextTracker == TrackedSwapRound \/ TrackedShuffleRound

SpecTracker == InitTracker /\ [][NextTracker]_vars

\* C28: after initialize_squads and after every round of the loop, the
\* tracker's current_club1_players and current_club2_players are the sets
\* of indices in the two parts of the current squad, and transfer_count is
\* the length of transfer_history.
C28_TrackerMirrorsSquads ==
    mode = "tracker" =>
        /\ result.current_club1_players = SetOf(Prefix(current_squad, squad1_size))
        /\ result.current_club2_players = SetOf(Suffix(current_squad, squad1_size))
        /\ result.transfer_count = Len(result.transfer_history)

\* a committed proposal by which two players left the first club was passed
\* to track_transfer
C28_Witness ==
    /\ mode = "tracker" /\ round_num > 0
    /\ club1_vote = "True" /\ club2_vote = "True"
    /\ SetOf(Prefix(proposal, squad1_size)) = result.initial_club2_players
    /\ result.transfer_count = 1

====
